---- MODULE Spec2Model ----
(***************************************************************************)
(* Block production and finality engine of gossamer: the block state       *)
(* (block tree, header/body store, number index, finalised-hash records),  *)
(* the block-notification channels of dot/state, and the BABE block        *)
(* builder of lib/babe/build.go.                                           *)
(*                                                                         *)
(* Three specifications share the variables:                               *)
(*   Spec        the block state under AddBlock / SetFinalizedHash         *)
(*   SpecNotify  the subscriber channels under register / notify / send    *)
(*   SpecBuild   one run of Service.buildBlock, step by step               *)
(***************************************************************************)
EXTENDS Integers, Sequences, FiniteSets, TLC

\* ------------------------------------------------------------------ bounds
\* Number of non-genesis block hashes that can be created.
MaxBlocks == 3
\* Largest block number a header can carry.
MaxNumber == 1
\* Number of blocks imported while subscribers are listening (SpecNotify).
MaxImports == 2
\* Number of channel ids; stands for the 256 values of a byte id.
MaxChannels == 2
\* Capacity of a subscriber's channel.
ChanCap == 1
\* Number of transactions in the pool when a block is built (SpecBuild).
MaxPool == 2
\* Number of inherents the runtime can return.
MaxInherents == 2
\* Wall-clock ticks a block build can last.
MaxTime == 2
\* Length of the longest value put into storage (SpecStorage).
MaxValLen == 3
\* Number of trie objects that can be created as child tries (SpecChild).
MaxTries == 2
\* Number of blocks after genesis in the chain the syncer serves (SpecSync).
MaxChain == 2
\* Number of SendMessage calls (SpecNetwork).
MaxSends == 3
\* Clock ticks while messages are sent (SpecNetwork).
MaxClock == 3
\* Number of messages the GRANDPA service hands to the network (SpecGossip, SpecNeighbour).
MaxGossip == 2

\* ------------------------------------------------------------ block state
VARIABLES
    hdrParent,   \* hash -> ParentHash of the header with that hash (NoHash: no such header)
    hdrNumber,   \* hash -> Number of the header with that hash
    nextHash,    \* the hash the next new header gets
    btNodes,     \* bs.bt: the hashes in the block tree
    btRoot,      \* bs.bt: the root of the block tree (the last finalised block in it)
    arrival,     \* hash -> arrival time of the block
    clock,       \* time.Now() of the block state, one tick per imported block
    dbHeader,    \* hashes whose header is stored (HasHeader)
    dbBody,      \* hashes whose body is stored (HasBlockBody)
    numIndex,    \* number -> hash (GetHashByNumber)
    finalized,   \* (round, setID) -> hash (GetFinalizedHash)
    err          \* what the last block-state call returned

blockVars == <<hdrParent, hdrNumber, nextHash, btNodes, btRoot, arrival, clock,
               dbHeader, dbBody, numIndex, finalized, err>>

\* ------------------------------------------------- notification channels
VARIABLES
    imported,       \* bs.imported: id -> channel registered for imported blocks
    finalised,      \* bs.finalised: id -> channel registered for finalised blocks
    importedLock,   \* bs.importedLock: read locks taken and not released
    finalisedLock,  \* bs.finalisedLock: read locks taken and not released
    reg,            \* channel -> where its subscriber is in registering it, and its id
    chanBuf,        \* channel -> the messages buffered in it, oldest first
    sendq,          \* the goroutines spawned by notify* that have not run yet
    lastSent,       \* channel -> the last message sent into it (NoHash: none yet)
    dropped         \* the (channel, message) sends that found the channel full

notifyVars == <<imported, finalised, importedLock, finalisedLock, reg, chanBuf, sendq,
                lastSent, dropped>>

\* ---------------------------------------------------- BABE block builder
VARIABLES
    bpc,           \* where Service.buildBlock is
    slot,          \* the slot the block is built for: start and duration
    now,           \* time.Now()
    authorized,    \* b.slotToProof[slot.number] # nil
    txQueue,       \* b.transactionState: the pool, in the order Pop returns it
    calls,         \* the calls made to the runtime b.rt, in order
    inherentExts,  \* the inherents InherentExtrinsics returned
    nApplied,      \* how many of them buildBlockInherents has applied
    popped,        \* the transactions buildBlockExtrinsics popped, with what happened
    included,      \* buildBlockExtrinsics: included
    built,         \* the body of the block buildBlock returned
    buildErr,      \* the error buildBlock returned
    rets,          \* what the runtime gave back for each of calls
    parentHdr,   \* the parent header buildBlock was given: its hash and number
    header,        \* the header of the block under construction
    sealData       \* SealDigest.Data of the seal buildBlockSeal returned: the signature

buildVars == <<bpc, slot, now, authorized, txQueue, calls, inherentExts, nApplied,
               popped, included, built, buildErr, rets, parentHdr, header, sealData>>

\* ------------------------------------------- runtime storage and child tries
VARIABLES
    storage,     \* the runtime's storage: key -> value (Absent: no value)
    sret,        \* what the last host storage call returned
    trieData,    \* trie object -> its entries: key -> value (0: no entry)
    nextTrie,    \* the trie object trie.NewEmptyTrie() returns next
    childRoot,   \* the parent trie at ':child_storage:default:' + name (NoRoot: no entry)
    childTries,  \* t.childTries: child root hash -> trie object (0: nil)
    cop          \* the last child-trie call and what it returned

storeVars == <<storage, sret, trieData, nextTrie, childRoot, childTries, cop>>

\* ------------------------------------------- sync, network and command line
VARIABLES
    bdStore,     \* block -> which of receipt, message queue, justification are stored
    scall,       \* the last call on the syncer
    bresp,       \* the BlockData of the response to it
    msgCache,    \* host.messageCache: peer -> message -> when the entry expires (0: none)
    cacheOn,     \* host.messageCache # nil
    netNow,      \* the clock of the network service
    sendCalls,   \* the SendMessage calls made so far
    netMessages, \* handler.messages of each peer: what it has received
    cmd,         \* the command being run: its arguments, its position, what it has called
    dotNode      \* the node at the base path: initialised, created, started, imported states

\* --------------------------------------------------------- GRANDPA gossip
VARIABLES
    hcall,             \* the last handleNetworkMessage call and what it returned
    gossip,            \* s.network.SendMessage: the messages the service sent, in order
    npc,               \* where the sendNeighbourMessage goroutine is
    neighbourMessage,  \* s.neighbourMessage
    finalisedCh,       \* s.finalisedCh: the infos buffered in it, and whether it is closed
    ctxDone,           \* s.ctx is cancelled
    lastInfo           \* the finalisation sendNeighbourMessage received last

syncVars == <<bdStore, scall, bresp>>
netVars == <<msgCache, cacheOn, netNow, sendCalls, netMessages>>
cmdVars == <<cmd, dotNode>>
grandpaVars == <<hcall, gossip, npc, neighbourMessage, finalisedCh, ctxDone, lastInfo>>
nodeVars == <<syncVars, netVars, cmdVars, grandpaVars>>

vars == <<blockVars, notifyVars, buildVars, storeVars, nodeVars>>

Genesis == 0
NoHash == 0 - 1
Hashes == 0 .. MaxBlocks
\* A hash that no header of the run hashes to (common.Hash{1, 2, 3, 4} of TestFinalizedHash).
UnknownHash == MaxBlocks + 1
Numbers == 0 .. MaxNumber
\* The (round, setID) pairs the finalised-hash records are keyed by.
FinKeys == {<<0, 0>>, <<1, 1>>}

\* The strict ancestors of h, following the headers' parent hashes.
RECURSIVE AncestorsOf(_)
AncestorsOf(h) ==
    IF h \notin Hashes \/ h = Genesis \/ hdrParent[h] = NoHash
    THEN {}
    ELSE {hdrParent[h]} \cup AncestorsOf(hdrParent[h])

\* blocktree IsDescendantOf(parent, child): child is parent or descends from it.
IsDescendantOf(parent, child) == child = parent \/ parent \in AncestorsOf(child)

\* The leaves of a tree: the nodes that are nobody's parent.
Leaves(nodes, par) == {l \in nodes : ~\E c \in nodes : c # l /\ par[c] = l}

\* The fork-choice key: a beats b when its number is greater, or equal and it arrived earlier.
Better(a, b, num, arr) == num[a] > num[b] \/ (num[a] = num[b] /\ arr[a] < arr[b])

\* The best head of a tree: the leaf no other leaf beats.
DeepestLeaf(nodes, par, num, arr) ==
    CHOOSE l \in Leaves(nodes, par) :
        \A m \in Leaves(nodes, par) : m = l \/ Better(l, m, num, arr)

BestBlockHash == DeepestLeaf(btNodes, hdrParent, hdrNumber, arrival)

BestBlockNumber == hdrNumber[BestBlockHash]

\* The current chain: the blocks of the tree from the root to head.
RECURSIVE ChainTo(_, _, _)
ChainTo(root, head, par) ==
    IF head = root \/ head = NoHash THEN {head} ELSE {head} \cup ChainTo(root, par[head], par)

CurrentChain == ChainTo(btRoot, BestBlockHash, hdrParent)

\* isBlockOnCurrentChain: the block is the best head or one of its ancestors in the tree.
isBlockOnCurrentChain(h) == h \in CurrentChain

\* GetHashByNumber: the hash the number index holds, NoHash when there is none.
GetHashByNumber(n) == numIndex[n]

HasHeader(h) == h \in dbHeader

HasBlockBody(h) == h \in dbBody

GetFinalizedHash(round, setID) == finalized[<<round, setID>>]

\* The number index after a block joined the tree: every number carried by a block of
\* the new current chain maps to that block (the deepest one, written last).
ReindexedChain(chain, num, par) ==
    [n \in Numbers |->
        LET at == {b \in chain : num[b] = n} IN
        IF at = {} THEN numIndex[n]
        ELSE CHOOSE b \in at : \A o \in at : o \in ChainTo(Genesis, b, par)]

ImpChans == {"i1", "i2"}
FinChans == {"f1", "f2"}
Chans == ImpChans \cup FinChans
NoChan == "nil"
ChannelIds == 0 .. (MaxChannels - 1)

\* The goroutines notifyImported(block) spawns: one per registered channel.
notifyImported(block) ==
    sendq \cup {[ch |-> imported[id], msg |-> block] : id \in {i \in ChannelIds : imported[i] # NoChan}}

\* The goroutines notifyFinalized(hash, round, setID) spawns: none when the header of
\* hash cannot be read, else one per registered channel.
notifyFinalized(hash) ==
    IF \A i \in ChannelIds : finalised[i] = NoChan THEN sendq
    ELSE IF ~HasHeader(hash) THEN sendq
    ELSE sendq \cup {[ch |-> finalised[id], msg |-> hash] : id \in {i \in ChannelIds : finalised[i] # NoChan}}

\* AddBlock(block) with block.Header = {ParentHash: p, Number: n}: a header whose
\* parent is not in the tree is refused; any other header joins the tree, its header
\* and body are stored and the number index follows the new current chain.
AddBlock(p, n) ==
    /\ nextHash <= MaxBlocks
    /\ IF p \notin btNodes
       THEN /\ err' = "UnknownParent"
            /\ UNCHANGED <<hdrParent, hdrNumber, nextHash, btNodes, btRoot, arrival, clock,
                           dbHeader, dbBody, numIndex, finalized, sendq>>
       ELSE LET h == nextHash
                par == [hdrParent EXCEPT ![h] = p]
                num == [hdrNumber EXCEPT ![h] = n]
                arr == [arrival EXCEPT ![h] = clock]
                nodes == btNodes \cup {h}
                best == DeepestLeaf(nodes, par, num, arr)
            IN  /\ hdrParent' = par
                /\ hdrNumber' = num
                /\ arrival' = arr
                /\ clock' = clock + 1
                /\ nextHash' = h + 1
                /\ btNodes' = nodes
                /\ dbHeader' = dbHeader \cup {h}
                /\ dbBody' = dbBody \cup {h}
                /\ numIndex' = ReindexedChain(ChainTo(btRoot, best, par), num, par)
                /\ err' = "nil"
                /\ sendq' = notifyImported(h)
                /\ UNCHANGED <<btRoot, finalized>>
    /\ UNCHANGED <<imported, finalised, importedLock, finalisedLock, reg, chanBuf,
                   lastSent, dropped>>
    /\ UNCHANGED <<buildVars, storeVars, nodeVars>>

\* The blocks a finalisation of fin removes from the tree: all but fin and its descendants.
PrunedBlocks(fin) == {b \in btNodes : ~IsDescendantOf(fin, b)}

\* A pruning that deletes every block it removes from the tree, finalised ancestors too.
DeletedBlocks_all(fin) == PrunedBlocks(fin)

\* The pruned blocks whose header and body are deleted: those that are no ancestor of fin.
DeletedBlocks(fin) == {b \in PrunedBlocks(fin) : ~IsDescendantOf(b, fin)}

SetFinalizedHash_latest(h, key) ==
    /\ finalized' = [k \in FinKeys |-> h]
    /\ err' = "nil"
    /\ IF h \in btNodes
       THEN /\ btRoot' = h
            /\ btNodes' = btNodes \ PrunedBlocks(h)
            /\ dbHeader' = dbHeader \ DeletedBlocks(h)
            /\ dbBody' = dbBody \ DeletedBlocks(h)
       ELSE UNCHANGED <<btRoot, btNodes, dbHeader, dbBody>>
    /\ sendq' = notifyFinalized(h)
    /\ UNCHANGED <<hdrParent, hdrNumber, nextHash, arrival, clock, numIndex>>
    /\ UNCHANGED <<imported, finalised, importedLock, finalisedLock, reg, chanBuf,
                   lastSent, dropped>>
    /\ UNCHANGED <<buildVars, storeVars, nodeVars>>

\* SetFinalizedHash(hash, round, setID): records the hash under (round, setID); a hash
\* of the tree becomes its root and the other branches are pruned. No hash is refused.
SetFinalizedHash(h, key) ==
    /\ finalized' = [finalized EXCEPT ![key] = h]
    /\ err' = "nil"
    /\ IF h \in btNodes
       THEN /\ btRoot' = h
            /\ btNodes' = btNodes \ PrunedBlocks(h)
            /\ dbHeader' = dbHeader \ DeletedBlocks(h)
            /\ dbBody' = dbBody \ DeletedBlocks(h)
       ELSE UNCHANGED <<btRoot, btNodes, dbHeader, dbBody>>
    /\ sendq' = notifyFinalized(h)
    /\ UNCHANGED <<hdrParent, hdrNumber, nextHash, arrival, clock, numIndex>>
    /\ UNCHANGED <<imported, finalised, importedLock, finalisedLock, reg, chanBuf,
                   lastSent, dropped>>
    /\ UNCHANGED <<buildVars, storeVars, nodeVars>>

\* The hashes of the headers created so far.
KnownHashes == 0 .. (nextHash - 1)

\* NewBlockStateFromGenesis: the tree holds the genesis block alone.
NewBlockStateFromGenesis ==
    /\ hdrParent = [h \in Hashes |-> NoHash]
    /\ hdrNumber = [h \in Hashes |-> 0]
    /\ nextHash = 1
    /\ btNodes = {Genesis}
    /\ btRoot = Genesis
    /\ arrival = [h \in Hashes |-> 0]
    /\ clock = 1
    /\ dbHeader = {Genesis}
    /\ dbBody = {Genesis}
    /\ numIndex = [n \in Numbers |-> IF n = 0 THEN Genesis ELSE NoHash]
    /\ finalized = [k \in FinKeys |-> Genesis]
    /\ err = "nil"

\* No channel is registered and no notification is under way.
NoSubscribers ==
    /\ imported = [i \in ChannelIds |-> NoChan]
    /\ finalised = [i \in ChannelIds |-> NoChan]
    /\ importedLock = 0
    /\ finalisedLock = 0
    /\ reg = [c \in Chans |-> [pc |-> "idle", id |-> 0]]
    /\ chanBuf = [c \in Chans |-> <<>>]
    /\ sendq = {}
    /\ lastSent = [c \in Chans |-> NoHash]
    /\ dropped = {}

\* ------------------------------------------- runtime storage: values and keys
\* An optional value: optional.Bytes.
None == [some |-> FALSE, val |-> <<>>]
Some(v) == [some |-> TRUE, val |-> v]

\* Storage keys, chosen so that some are prefixes of others.
StorageKeys == {<<1>>, <<1, 1>>, <<2>>}
Prefixes == StorageKeys \cup {<<>>, <<1, 2>>}
\* Byte strings, the empty one and the longest: the i-th byte is i, so every part of a
\* value shows where it came from.
StorageValues == {[i \in 1 .. n |-> i] : n \in {0, MaxValLen}}
\* The runtime's main storage and one child storage.
Tries == {"main", "child"}
\* What the child storage functions are called with.
ChildStorageValues == {<<1>>}

\* Child tries: their names, the keys and values put into them, the trie objects.
ChildNames == {"A", "B"}
ChildKeys == {"k1", "k2"}
ChildValues == {1}
TrieObjects == 1 .. MaxTries
\* What a trie holds: for every key its value, 0 for none.
Contents == [ChildKeys -> {0} \cup ChildValues]
EmptyTrie == [k \in ChildKeys |-> 0]
\* No entry in the parent trie under a child's key.
NoRoot == [k \in ChildKeys |-> 0 - 1]

NoCall == [op |-> "none", trie |-> "main", key |-> <<>>, offset |-> 0, size |-> 0, arg |-> <<>>,
           err |-> "nil", val |-> None]
NoChildCall == [op |-> "none", name |-> "A", key |-> "k1", arg |-> 0, err |-> "nil"]

\* An empty storage and a trie without child tries.
StorageEmpty ==
    /\ storage = [t \in Tries |-> [k \in StorageKeys |-> None]]
    /\ sret = NoCall
    /\ trieData = [o \in TrieObjects |-> EmptyTrie]
    /\ nextTrie = 1
    /\ childRoot = [n \in ChildNames |-> NoRoot]
    /\ childTries = [h \in Contents |-> 0]
    /\ cop = NoChildCall

\* The blocks of the chain the syncer serves; blocks are known by their numbers.
SyncBlocks == 1 .. MaxChain
\* The bits of RequestedData.
RequestedHeader == 1
RequestedBody == 2
RequestedReceipt == 4
RequestedMessageQueue == 8
RequestedJustification == 16
RequestedDatas == 0 .. 31
\* No datum: an optional without a value.
NoDatum == 0
\* What CompareAndSetBlockData is called with: the data of the BlockData that are set.
BlockDatas == {{"receipt"}, {"receipt", "messageQueue", "justification"}}
NoSyncCall == [op |-> "none", start |-> 1, end |-> 1, requested |-> 0, err |-> "nil"]

\* A syncer over a chain of MaxChain blocks (addTestBlocksToState), nothing asked.
SyncerIdle ==
    /\ bdStore = [n \in SyncBlocks |-> {}]
    /\ scall = NoSyncCall
    /\ bresp = <<>>

\* The peers the service has completed the handshake with, and the messages it sends.
Peers == {"nodeB", "nodeC"}
Messages == {"blockAnnounce1", "blockAnnounce2"}
\* msgCacheTTL, in clock ticks.
MsgCacheTTL == 2

\* createTestService: the message cache is there and empty, nothing was sent.
NetworkIdle ==
    /\ msgCache = [p \in Peers |-> [m \in Messages |-> 0]]
    /\ cacheOn = TRUE
    /\ netNow = 0
    /\ sendCalls = <<>>
    /\ netMessages = [p \in Peers |-> <<>>]

\* The commands of the model and the values of the flags of import-state.
CommandNames == {"gossamer", "import-state"}
StateFiles == {"", "state.json"}
HeaderFiles == {"", "header.json"}
FirstSlots == {0 - 1, 0, 1}
\* uint64(n) of an int n, as four digits of 16 bits, the most significant first.
Limb == 65536
uint64(n) ==
    LET d1 == n \div Limb
        d2 == d1 \div Limb
        d3 == d2 \div Limb
    IN  <<d3 % Limb, d2 % Limb, d1 % Limb, n % Limb>>

\* A command line: the command, the number of positional arguments, the flags.
CommandLine(name, nargs, stateFP, headerFP, firstSlot) ==
    [name |-> name, args |-> nargs, stateFP |-> stateFP, headerFP |-> headerFP,
     firstSlot |-> firstSlot, pc |-> "start", err |-> "nil", calls |-> <<>>]

\* A base path, initialised or not, with no node created from it.
BasePath(initialized) ==
    [initialized |-> initialized, created |-> FALSE, started |-> FALSE, imports |-> <<>>]

\* No command is run, on a base path that is not initialised.
CommandIdle ==
    /\ cmd = [CommandLine("none", 0, "", "", 0) EXCEPT !.pc = "returned"]
    /\ dotNode = BasePath(FALSE)

\* The types of the GRANDPA messages, and what the data of a consensus message can be:
\* nothing, the encoding of a message of one of the types, or bytes that decode to none.
MessageTypes == {"vote", "finalisation", "neighbour", "catchUpRequest", "catchUpResponse"}
neighbourType == "neighbour"
catchUpResponseType == "catchUpResponse"
ConsensusDatas == {<<>>, <<"garbage">>} \cup {<<t>> : t \in MessageTypes}
\* The messages handleNetworkMessage is handed: nil, a notifications message that is
\* no *network.ConsensusMessage, or a consensus message with its data.
NilMessage == [kind |-> "nil", data |-> <<>>]
NotificationsMessages ==
    {NilMessage, [kind |-> "BlockAnnounceMessage", data |-> <<>>]}
        \cup {[kind |-> "ConsensusMessage", data |-> d] : d \in ConsensusDatas}

\* A block number (*big.Int) as three digits of 16 bits, the most significant first,
\* and uint32(n.Int64()): its low 32 bits, as two digits.
BlockNumbers == {<<0, 0, 1>>, <<0, 0, 2>>, <<1, 0, 2>>}
uint32(n) == <<n[2], n[3]>>

\* The finalisations the block state notifies: the number of the header, round, set id.
FinalisationInfos ==
    {[number |-> <<0, 0, 1>>, round |-> 1, setID |-> 0],
     [number |-> <<0, 0, 2>>, round |-> 2, setID |-> 0],
     [number |-> <<1, 0, 2>>, round |-> 1, setID |-> 1]}
NoInfo == [number |-> <<0, 0, 0>>, round |-> 0, setID |-> 0]

\* The messages handed to the network.
GossipMessage(type, version, round, setID, number) ==
    [type |-> type, version |-> version, round |-> round, setID |-> setID, number |-> number]
\* No message: a nil response, a nil s.neighbourMessage.
NoMessage == GossipMessage("nil", 0, 0, 0, <<0, 0>>)
\* What messageHandler.handleMessage can return as response.
Responses ==
    {NoMessage, GossipMessage("catchUpResponse", 0, 1, 0, <<0, 1>>),
     GossipMessage("vote", 0, 2, 0, <<0, 2>>)}
\* What messageHandler.handleMessage can return: a response and an error.
HandlerResults == [resp : Responses, err : {"nil", "handler error"}]

NoGossipCall ==
    [msg |-> NilMessage, handled |-> [resp |-> NoMessage, err |-> "nil"],
     propagate |-> FALSE, err |-> "none"]

\* A GRANDPA service that was handed no message and has not started its
\* sendNeighbourMessage goroutine.
GrandpaIdle ==
    /\ hcall = NoGossipCall
    /\ gossip = <<>>
    /\ npc = "idle"
    /\ neighbourMessage = NoMessage
    /\ finalisedCh = [buf |-> <<>>, closed |-> FALSE]
    /\ ctxDone = FALSE
    /\ lastInfo = NoInfo

\* A node that has done nothing yet.
NodeIdle == SyncerIdle /\ NetworkIdle /\ CommandIdle /\ GrandpaIdle

\* No header: types.Header{}.
NoHeader == [parentHash |-> NoHash, number |-> 0, digest |-> <<>>]

\* header.Encode(), common.Blake2bHash and b.keypair.Sign: what each is made from.
Encode(h) == <<h.parentHash, h.number, h.digest>>
Blake2bHash(enc) == [blake2b |-> enc]
Sign(msg) == [signer |-> "keypair", signed |-> msg]
\* No signature.
NoSeal == Sign(Blake2bHash(Encode(NoHeader)))

\* No block is being built.
BuilderIdle ==
    /\ bpc = "idle"
    /\ slot = [start |-> 0, duration |-> 0]
    /\ now = 0
    /\ authorized = FALSE
    /\ txQueue = <<>>
    /\ calls = <<>>
    /\ inherentExts = <<>>
    /\ nApplied = 0
    /\ popped = <<>>
    /\ included = <<>>
    /\ built = <<>>
    /\ buildErr = "nil"
    /\ rets = <<>>
    /\ parentHdr = [hash |-> Genesis, number |-> 0]
    /\ header = NoHeader
    /\ sealData = NoSeal

Init == NewBlockStateFromGenesis /\ NoSubscribers /\ BuilderIdle /\ StorageEmpty /\ NodeIdle

Next ==
    \/ \E p \in KnownHashes \cup {UnknownHash}, n \in Numbers : AddBlock(p, n)
    \/ \E h \in KnownHashes \cup {UnknownHash}, key \in FinKeys : SetFinalizedHash(h, key)

Spec == Init /\ [][Next]_vars

\* ------------------------------------------------- notification channels

\* RegisterImportedChannel, under the read lock: the limit check, which returns with
\* the read lock still held, and the choice of a free id.
RegisterImportedPick(ch) ==
    /\ reg[ch].pc = "idle"
    /\ IF Cardinality({i \in ChannelIds : imported[i] # NoChan}) = MaxChannels
       THEN /\ importedLock' = importedLock + 1
            /\ reg' = [reg EXCEPT ![ch] = [pc |-> "failed", id |-> 0]]
       ELSE /\ \E id \in ChannelIds :
                  /\ imported[id] = NoChan
                  /\ reg' = [reg EXCEPT ![ch] = [pc |-> "picked", id |-> id]]
            /\ UNCHANGED importedLock
    /\ UNCHANGED <<blockVars, buildVars, storeVars, nodeVars, imported, finalised, finalisedLock, chanBuf, sendq,
                   lastSent, dropped>>

\* RegisterImportedChannel, under the write lock: the channel is stored under the id.
RegisterImportedSet(ch) ==
    /\ reg[ch].pc = "picked"
    /\ importedLock = 0
    /\ imported' = [imported EXCEPT ![reg[ch].id] = ch]
    /\ reg' = [reg EXCEPT ![ch].pc = "registered"]
    /\ UNCHANGED <<blockVars, buildVars, storeVars, nodeVars, finalised, importedLock, finalisedLock, chanBuf, sendq,
                   lastSent, dropped>>

\* UnregisterImportedChannel(id), called by the subscriber with the id it was given.
UnregisterImportedChannel(ch) ==
    /\ reg[ch].pc = "registered"
    /\ importedLock = 0
    /\ imported' = [imported EXCEPT ![reg[ch].id] = NoChan]
    /\ reg' = [reg EXCEPT ![ch] = [pc |-> "idle", id |-> 0]]
    /\ UNCHANGED <<blockVars, buildVars, storeVars, nodeVars, finalised, importedLock, finalisedLock, chanBuf, sendq,
                   lastSent, dropped>>

\* RegisterFinalizedChannel, under the read lock.
RegisterFinalizedPick(ch) ==
    /\ reg[ch].pc = "idle"
    /\ IF Cardinality({i \in ChannelIds : finalised[i] # NoChan}) = MaxChannels
       THEN /\ finalisedLock' = finalisedLock + 1
            /\ reg' = [reg EXCEPT ![ch] = [pc |-> "failed", id |-> 0]]
       ELSE /\ \E id \in ChannelIds :
                  /\ finalised[id] = NoChan
                  /\ reg' = [reg EXCEPT ![ch] = [pc |-> "picked", id |-> id]]
            /\ UNCHANGED finalisedLock
    /\ UNCHANGED <<blockVars, buildVars, storeVars, nodeVars, imported, finalised, importedLock, chanBuf, sendq,
                   lastSent, dropped>>

\* RegisterFinalizedChannel, under the write lock.
RegisterFinalizedSet(ch) ==
    /\ reg[ch].pc = "picked"
    /\ finalisedLock = 0
    /\ finalised' = [finalised EXCEPT ![reg[ch].id] = ch]
    /\ reg' = [reg EXCEPT ![ch].pc = "registered"]
    /\ UNCHANGED <<blockVars, buildVars, storeVars, nodeVars, imported, importedLock, finalisedLock, chanBuf, sendq,
                   lastSent, dropped>>

\* UnregisterFinalizedChannel(id), called by the subscriber with the id it was given.
UnregisterFinalizedChannel(ch) ==
    /\ reg[ch].pc = "registered"
    /\ finalisedLock = 0
    /\ finalised' = [finalised EXCEPT ![reg[ch].id] = NoChan]
    /\ reg' = [reg EXCEPT ![ch] = [pc |-> "idle", id |-> 0]]
    /\ UNCHANGED <<blockVars, buildVars, storeVars, nodeVars, imported, importedLock, finalisedLock, chanBuf, sendq,
                   lastSent, dropped>>

\* A send that waits for room in the channel instead of giving up.
SendNotification_blocking(g) ==
    /\ g \in sendq
    /\ Len(chanBuf[g.ch]) < ChanCap
    /\ chanBuf' = [chanBuf EXCEPT ![g.ch] = Append(@, g.msg)]
    /\ lastSent' = [lastSent EXCEPT ![g.ch] = g.msg]
    /\ sendq' = sendq \ {g}
    /\ UNCHANGED <<blockVars, buildVars, storeVars, nodeVars, imported, finalised, importedLock, finalisedLock, reg, dropped>>

\* One goroutine of notifyImported / notifyFinalized: select { case ch <- msg: default: }.
\* The message enters the channel when there is room and is given up otherwise.
SendNotification(g) ==
    /\ g \in sendq
    /\ sendq' = sendq \ {g}
    /\ IF Len(chanBuf[g.ch]) < ChanCap
       THEN /\ chanBuf' = [chanBuf EXCEPT ![g.ch] = Append(@, g.msg)]
            /\ lastSent' = [lastSent EXCEPT ![g.ch] = g.msg]
            /\ UNCHANGED dropped
       ELSE /\ dropped' = dropped \cup {g}
            /\ UNCHANGED <<chanBuf, lastSent>>
    /\ UNCHANGED <<blockVars, buildVars, storeVars, nodeVars, imported, finalised, importedLock, finalisedLock, reg>>

\* A subscriber takes the oldest message out of its channel.
Receive(ch) ==
    /\ chanBuf[ch] # <<>>
    /\ chanBuf' = [chanBuf EXCEPT ![ch] = Tail(@)]
    /\ UNCHANGED <<blockVars, buildVars, storeVars, nodeVars, imported, finalised, importedLock, finalisedLock, reg, sendq,
                   lastSent, dropped>>

\* The next block of the best chain is imported (a block built on the best head).
ImportBlock ==
    /\ nextHash <= MaxImports
    /\ AddBlock(BestBlockHash, BestBlockNumber + 1)

\* The finality gadget finalises a block of the tree above the root, or is handed a
\* hash of no block.
FinaliseBlock ==
    \E h \in (btNodes \ {btRoot}) \cup {UnknownHash} : SetFinalizedHash(h, <<1, 1>>)

\* Blocks are added under any block, with the number that follows their parent's, and
\* any hash is recorded as finalised, under any (round, setID).
NextFinalized ==
    \/ \E p \in KnownHashes : AddBlock(p, hdrNumber[p] + 1)
    \/ \E h \in KnownHashes \cup {UnknownHash}, key \in FinKeys : SetFinalizedHash(h, key)

SpecFinalized == Init /\ [][NextFinalized]_vars

\* A block state with two subscribers registered: for imported blocks, or for
\* finalised blocks (the two kinds share no map, lock or channel).
InitNotify ==
    /\ NewBlockStateFromGenesis
    /\ NodeIdle
    /\ BuilderIdle
    /\ StorageEmpty
    /\ \E subs \in {<<"i1", "i2">>, <<"f1", "f2">>} :
        LET map == [i \in ChannelIds |-> IF i = 0 THEN subs[1] ELSE IF i = 1 THEN subs[2] ELSE NoChan]
            none == [i \in ChannelIds |-> NoChan]
        IN  /\ imported = IF subs[1] \in ImpChans THEN map ELSE none
            /\ finalised = IF subs[1] \in FinChans THEN map ELSE none
            /\ reg = [c \in Chans |->
                         IF c = subs[1] THEN [pc |-> "registered", id |-> 0]
                         ELSE IF c = subs[2] THEN [pc |-> "registered", id |-> 1]
                         ELSE [pc |-> "idle", id |-> 0]]
    /\ importedLock = 0
    /\ finalisedLock = 0
    /\ chanBuf = [c \in Chans |-> <<>>]
    /\ sendq = {}
    /\ lastSent = [c \in Chans |-> NoHash]
    /\ dropped = {}

NextNotify ==
    \/ ImportBlock
    \/ FinaliseBlock
    \/ \E g \in sendq : SendNotification(g)
    \/ \E ch \in Chans : Receive(ch)

SpecNotify == InitNotify /\ [][NextNotify]_vars

\* The goroutines notifyImported and notifyFinalized can have spawned.
Goroutines == [ch : Chans, msg : 1 .. MaxBlocks]
\* The scheduler runs every goroutine that is ready, and the subscribers keep reading
\* their channels.
FairNotify ==
    /\ \A g \in Goroutines : WF_vars(SendNotification(g))
    /\ \A ch \in Chans : WF_vars(Receive(ch))

SpecNotifyFair == SpecNotify /\ FairNotify

\* Subscribers of imported blocks come and go while blocks are imported.
NextRegister ==
    \/ ImportBlock
    \/ \E ch \in ImpChans : RegisterImportedPick(ch)
    \/ \E ch \in ImpChans : RegisterImportedSet(ch)
    \/ \E ch \in ImpChans : UnregisterImportedChannel(ch)
    \/ \E ch \in FinChans : RegisterFinalizedPick(ch)
    \/ \E ch \in FinChans : RegisterFinalizedSet(ch)
    \/ \E ch \in FinChans : UnregisterFinalizedChannel(ch)
    \/ \E g \in sendq : SendNotification(g)
    \/ \E ch \in Chans : Receive(ch)

SpecRegister == Init /\ [][NextRegister]_vars

\* A block state whose channel maps are full: one subscriber of each kind has registered
\* its channel under every id (the id it will unregister is the first), and the other
\* subscriber of each kind has not registered yet.
InitRegisterFull ==
    /\ NewBlockStateFromGenesis
    /\ NodeIdle
    /\ BuilderIdle
    /\ StorageEmpty
    /\ imported = [i \in ChannelIds |-> "i1"]
    /\ finalised = [i \in ChannelIds |-> "f1"]
    /\ reg = [c \in Chans |->
                 IF c \in {"i1", "f1"} THEN [pc |-> "registered", id |-> 0]
                 ELSE [pc |-> "idle", id |-> 0]]
    /\ importedLock = 0
    /\ finalisedLock = 0
    /\ chanBuf = [c \in Chans |-> <<>>]
    /\ sendq = {}
    /\ lastSent = [c \in Chans |-> NoHash]
    /\ dropped = {}

SpecRegisterFull == InitRegisterFull /\ [][NextRegister]_vars

\* ------------------------------------------- BABE block builder: actions

\* What ApplyExtrinsic can give back for an extrinsic: the call fails (err # nil), or
\* it returns bytes that determineErr reads as no error, as a DispatchOutcomeError or
\* as another error: an invalid transaction, among them one that exhausts the
\* resources of the block.
ApplyResults == {"callFailed", "success", "dispatchError", "invalid", "exhausted"}

Transactions == [id : 1 .. MaxPool, hasExtrinsic : BOOLEAN]

NoExtrinsic == <<"none", 0>>

\* hasSlotEnded(slot): time.Since(slot.start.Add(slot.duration)) >= 0.
hasSlotEnded(s) == now - (s.start + s.duration) >= 0

\* A pool transaction stays in the block on success only.
isIncluded_successOnly(r) == r = "success"

\* buildBlockExtrinsics, after ApplyExtrinsic: a failed call and every error that is no
\* DispatchOutcomeError move on to the next transaction; the rest is included.
isIncluded(r) == r # "callFailed" /\ (r = "success" \/ r = "dispatchError")

\* transactionState.Push: the transaction takes its place in the priority order.
Push(q, t) ==
    SelectSeq(q, LAMBDA u : u.id < t.id) \o <<t>> \o SelectSeq(q, LAMBDA u : u.id > t.id)

\* addToQueue(txs): every transaction of txs is pushed back to the pool.
RECURSIVE addToQueue(_, _)
addToQueue(q, txs) ==
    IF txs = <<>> THEN q ELSE addToQueue(Push(q, Head(txs)), Tail(txs))

\* A body with the transactions in front of the inherents.
extrinsicsToBodySeq_txsFirst(inherents, txs) ==
    [i \in 1 .. Len(txs) |-> <<"tx", txs[i].id>>]
        \o [i \in 1 .. Len(inherents) |-> <<"inherent", inherents[i]>>]

\* extrinsicsToBody(inherents, txs): the inherents, then the included transactions.
extrinsicsToBodySeq(inherents, txs) ==
    [i \in 1 .. Len(inherents) |-> <<"inherent", inherents[i]>>]
        \o [i \in 1 .. Len(txs) |-> <<"tx", txs[i].id>>]

Call(op, ext) == [op |-> op, ext |-> ext]

Fail(e) == bpc' = "failed" /\ buildErr' = e

\* types.NewHeader(parent.Hash(), common.Hash{}, common.Hash{}, parent.Number + 1,
\* types.NewEmptyDigest()).
NewHeader(par) == [parentHash |-> par.hash, number |-> par.number + 1, digest |-> <<>>]

\* The digest items of a header, by type.
PreRuntimeDigest == "PreRuntime"
SealDigest == "Seal"
ConsensusDigest == "Consensus"

\* The headers the runtime can return from FinalizeBlock: of any parent and number,
\* with or without a digest item of the runtime's own.
RuntimeHeaders(par) ==
    [parentHash : {par.hash, UnknownHash},
     number : {par.number + 1, 0},
     digest : {<<>>, <<ConsensusDigest>>}]

\* A builder that keeps the parent hash and number of the header the runtime returned.
LinkToParent_asReturned(h, par) == h

\* header.ParentHash = parent.Hash(); header.Number.Add(parent.Number, big.NewInt(1)).
LinkToParent(h, par) == [h EXCEPT !.parentHash = par.hash, !.number = par.number + 1]

\* A builder that seals the header as the runtime returned it, without the pre-digest.
SealedHeader_withoutPreDigest(h) ==
    [h EXCEPT !.digest = SelectSeq(@, LAMBDA d : d # "PreRuntime")]
\* seal, err := b.buildBlockSeal(header): the header that is sealed.
SealedHeader(h) == h

\* A builder that puts the seal in front of the digest.
AppendSeal_first(h) == [h EXCEPT !.digest = <<SealDigest>> \o @]

\* header.Digest = append(header.Digest, seal).
AppendSeal(h) == [h EXCEPT !.digest = Append(@, SealDigest)]

\* header.Digest = append(header.Digest, preDigest).
AppendPreDigest(h) == [h EXCEPT !.digest = Append(@, PreRuntimeDigest)]

\* time.Now() moves on while the block is built.
Tick ==
    /\ bpc \notin {"idle", "returned", "failed"}
    /\ now < MaxTime
    /\ now' = now + 1
    /\ UNCHANGED <<bpc, slot, parentHdr, authorized, txQueue, calls, rets, inherentExts,
                   nApplied, popped, included, built, buildErr, header>>
    /\ UNCHANGED <<blockVars, notifyVars, storeVars, nodeVars, sealData>>

\* A builder that goes on without a proof for the slot.
buildBlockPreDigest_unchecked ==
    /\ bpc = "start"
    /\ bpc' = "initialize"
    /\ header' = NewHeader(parentHdr)
    /\ UNCHANGED <<slot, parentHdr, now, authorized, txQueue, calls, rets, inherentExts,
                   nApplied, popped, included, built, buildErr>>
    /\ UNCHANGED <<blockVars, notifyVars, storeVars, nodeVars, sealData>>

\* buildBlockPreDigest and types.NewHeader: no proof for the slot, no block.
buildBlockPreDigest ==
    /\ bpc = "start"
    /\ IF authorized
       THEN bpc' = "initialize" /\ header' = NewHeader(parentHdr) /\ UNCHANGED buildErr
       ELSE Fail("ErrNotAuthorized") /\ UNCHANGED header
    /\ UNCHANGED <<slot, parentHdr, now, authorized, txQueue, calls, rets, inherentExts,
                   nApplied, popped, included, built>>
    /\ UNCHANGED <<blockVars, notifyVars, storeVars, nodeVars, sealData>>

\* b.rt.InitializeBlock(header).
InitializeBlock(ok) ==
    /\ bpc = "initialize"
    /\ calls' = Append(calls, Call("InitializeBlock", NoExtrinsic))
    /\ rets' = Append(rets, IF ok THEN "ok" ELSE "error")
    /\ IF ok
       THEN bpc' = "inherents" /\ UNCHANGED buildErr
       ELSE Fail("InitializeBlock")
    /\ UNCHANGED <<slot, parentHdr, now, authorized, txQueue, inherentExts, nApplied, popped,
                   included, built, header>>
    /\ UNCHANGED <<blockVars, notifyVars, storeVars, nodeVars, sealData>>

\* A builder that takes the inherents from the runtime and goes on to the pool
\* without applying them.
buildBlockInherents_unapplied(ok, res) ==
    /\ bpc = "inherents"
    /\ ok
    /\ calls' = Append(calls, Call("InherentExtrinsics", NoExtrinsic))
    /\ rets' = Append(rets, "ok")
    /\ inherentExts' = [i \in 1 .. res |-> i]
    /\ bpc' = "extrinsics"
    /\ UNCHANGED <<slot, parentHdr, now, authorized, txQueue, nApplied, popped, included,
                   built, buildErr, header>>
    /\ UNCHANGED <<blockVars, notifyVars, storeVars, nodeVars, sealData>>

\* buildBlockInherents up to its loop: the inherent data is set up (the finalised
\* header is read), b.rt.InherentExtrinsics is called and what it returns is decoded.
buildBlockInherents(ok, res) ==
    /\ bpc = "inherents"
    /\ IF ~HasHeader(GetFinalizedHash(0, 0))
       THEN /\ Fail("cannot build inherents")
            /\ UNCHANGED <<calls, rets, inherentExts>>
       ELSE /\ calls' = Append(calls, Call("InherentExtrinsics", NoExtrinsic))
            /\ rets' = Append(rets, IF ok THEN "ok" ELSE "error")
            /\ IF ~ok
               THEN Fail("cannot build inherents") /\ UNCHANGED inherentExts
               ELSE /\ inherentExts' = [i \in 1 .. res |-> i]
                    /\ bpc' = IF res = 0 THEN "extrinsics" ELSE "applyInherents"
                    /\ UNCHANGED buildErr
    /\ UNCHANGED <<slot, parentHdr, now, authorized, txQueue, nApplied, popped, included,
                   built, header>>
    /\ UNCHANGED <<blockVars, notifyVars, storeVars, nodeVars, sealData>>

\* A builder that goes on to the next inherent whatever the runtime gave back.
ApplyInherent_lenient(r) ==
    /\ bpc = "applyInherents"
    /\ calls' = Append(calls, Call("ApplyExtrinsic", <<"inherent", inherentExts[nApplied + 1]>>))
    /\ rets' = Append(rets, r)
    /\ nApplied' = nApplied + 1
    /\ bpc' = IF nApplied + 1 = Len(inherentExts) THEN "extrinsics" ELSE bpc
    /\ UNCHANGED <<slot, parentHdr, now, authorized, txQueue, inherentExts, popped, included,
                   built, buildErr, header>>
    /\ UNCHANGED <<blockVars, notifyVars, storeVars, nodeVars, sealData>>

\* One turn of the loop of buildBlockInherents: the next inherent is applied; a failed
\* call or any return other than {0, 0} ends the build.
ApplyInherent(r) ==
    /\ bpc = "applyInherents"
    /\ calls' = Append(calls, Call("ApplyExtrinsic", <<"inherent", inherentExts[nApplied + 1]>>))
    /\ rets' = Append(rets, r)
    /\ IF r = "success"
       THEN /\ nApplied' = nApplied + 1
            /\ bpc' = IF nApplied + 1 = Len(inherentExts) THEN "extrinsics" ELSE bpc
            /\ UNCHANGED buildErr
       ELSE /\ Fail("cannot build inherents")
            /\ UNCHANGED nApplied
    /\ UNCHANGED <<slot, parentHdr, now, authorized, txQueue, inherentExts, popped, included,
                   built, header>>
    /\ UNCHANGED <<blockVars, notifyVars, storeVars, nodeVars, sealData>>

\* One turn of the loop of buildBlockExtrinsics: the slot has ended or the pool is
\* empty and the loop is left; else the head of the pool is popped, a transaction
\* without extrinsic is passed over, any other is applied and included or not.
buildBlockExtrinsics(r) ==
    /\ bpc = "extrinsics"
    /\ IF hasSlotEnded(slot) \/ txQueue = <<>>
       THEN /\ bpc' = "finalize"
            /\ UNCHANGED <<txQueue, calls, rets, popped, included>>
       ELSE LET txn == Head(txQueue) IN
            /\ txQueue' = Tail(txQueue)
            /\ bpc' = bpc
            /\ IF ~txn.hasExtrinsic
               THEN /\ popped' = Append(popped, [tx |-> txn, outcome |-> "nilExtrinsic"])
                    /\ UNCHANGED <<calls, rets, included>>
               ELSE /\ calls' = Append(calls, Call("ApplyExtrinsic", <<"tx", txn.id>>))
                    /\ rets' = Append(rets, r)
                    /\ popped' = Append(popped, [tx |-> txn, outcome |-> r])
                    /\ included' = IF isIncluded(r) THEN Append(included, txn) ELSE included
    /\ UNCHANGED <<slot, parentHdr, now, authorized, inherentExts, nApplied, built, buildErr,
                   header>>
    /\ UNCHANGED <<blockVars, notifyVars, storeVars, nodeVars, sealData>>

\* b.rt.FinalizeBlock(): when it fails the included transactions go back to the pool;
\* the header it returns is linked to the parent and gets the pre-digest.
FinalizeBlock(ok, rt) ==
    /\ bpc = "finalize"
    /\ calls' = Append(calls, Call("FinalizeBlock", NoExtrinsic))
    /\ rets' = Append(rets, IF ok THEN rt ELSE NoHeader)
    /\ IF ok
       THEN /\ bpc' = "seal"
            /\ header' = AppendPreDigest(LinkToParent(rt, parentHdr))
            /\ UNCHANGED <<txQueue, buildErr>>
       ELSE /\ Fail("cannot finalise block")
            /\ txQueue' = addToQueue(txQueue, included)
            /\ header' = NoHeader
    /\ UNCHANGED <<slot, parentHdr, now, authorized, inherentExts, nApplied, popped, included,
                   built>>
    /\ UNCHANGED <<blockVars, notifyVars, storeVars, nodeVars, sealData>>

\* buildBlockSeal(header): encoding, hashing or signing can fail; the seal is appended.
buildBlockSeal(ok) ==
    /\ bpc = "seal"
    /\ IF ok
       THEN /\ bpc' = "body"
            /\ sealData' = Sign(Blake2bHash(Encode(SealedHeader(header))))
            /\ header' = AppendSeal(header)
            /\ UNCHANGED buildErr
       ELSE Fail("buildBlockSeal") /\ UNCHANGED <<header, sealData>>
    /\ UNCHANGED <<slot, parentHdr, now, authorized, txQueue, calls, rets, inherentExts,
                   nApplied, popped, included, built>>
    /\ UNCHANGED <<blockVars, notifyVars, storeVars, nodeVars>>

\* extrinsicsToBody(inherents, included) and the return of the block.
extrinsicsToBody(ok) ==
    /\ bpc = "body"
    /\ IF ok
       THEN /\ built' = extrinsicsToBodySeq(inherentExts, included)
            /\ bpc' = "returned"
            /\ UNCHANGED buildErr
       ELSE Fail("extrinsicsToBody") /\ UNCHANGED built
    /\ UNCHANGED <<slot, parentHdr, now, authorized, txQueue, calls, rets, inherentExts,
                   nApplied, popped, included, header>>
    /\ UNCHANGED <<blockVars, notifyVars, storeVars, nodeVars, sealData>>

\* The parents a block can be built on.
Parents == {[hash |-> Genesis, number |-> 0], [hash |-> 1, number |-> 1]}

\* The pools a build can find: transactions 1 .. n in priority order, each with or
\* without an extrinsic.
Pools ==
    UNION {{q \in [1 .. n -> Transactions] : \A i \in 1 .. n : q[i].id = i} : n \in 0 .. MaxPool}

\* buildBlock(parent, slot) is called on a fresh block state.
InitBuild ==
    /\ NewBlockStateFromGenesis
    /\ NodeIdle
    /\ NoSubscribers
    /\ StorageEmpty
    /\ bpc = "start"
    /\ slot \in [start : {0}, duration : 0 .. MaxTime]
    /\ now = 0
    /\ authorized \in BOOLEAN
    /\ txQueue \in Pools
    /\ calls = <<>>
    /\ inherentExts = <<>>
    /\ nApplied = 0
    /\ popped = <<>>
    /\ included = <<>>
    /\ built = <<>>
    /\ buildErr = "nil"
    /\ rets = <<>>
    /\ parentHdr \in Parents
    /\ header = NoHeader
    /\ sealData = NoSeal

NextBuild ==
    \/ Tick
    \/ buildBlockPreDigest
    \/ \E ok \in BOOLEAN : InitializeBlock(ok)
    \/ \E ok \in BOOLEAN, res \in 0 .. MaxInherents : buildBlockInherents(ok, res)
    \/ \E r \in ApplyResults : ApplyInherent(r)
    \/ \E r \in ApplyResults : buildBlockExtrinsics(r)
    \/ \E ok \in BOOLEAN, rt \in RuntimeHeaders(parentHdr) : FinalizeBlock(ok, rt)
    \/ \E ok \in BOOLEAN : buildBlockSeal(ok)
    \/ \E ok \in BOOLEAN : extrinsicsToBody(ok)

SpecBuild == InitBuild /\ [][NextBuild]_vars

\* ------------------------------------------------------------- child tries

\* child.Hash(): the root hash of a trie, one for every content.
Hash(o) == trieData[o]

\* GetChild(keyToChild): an error when the parent has no entry under the child's key,
\* else whatever t.childTries holds under the hash found there (0: nil).
GetChild(name) ==
    IF childRoot[name] = NoRoot
    THEN [err |-> "child trie does not exist", child |-> 0]
    ELSE [err |-> "nil", child |-> childTries[childRoot[name]]]

\* GetFromChild(keyToChild, key): the value the child holds under key (0: nil).
GetFromChild(name, key) ==
    LET c == GetChild(name) IN
    IF c.err # "nil" \/ c.child = 0
    THEN [err |-> "child trie does not exist", val |-> 0]
    ELSE [err |-> "nil", val |-> trieData[c.child][key]]

ChildCall(op, name, key, arg, e) == [op |-> op, name |-> name, key |-> key, arg |-> arg, err |-> e]

\* PutChild(keyToChild, trie.NewEmptyTrie()): the hash of the new trie is put into the
\* parent under the child's key and the trie into t.childTries under its hash.
PutChild(name) ==
    /\ cop.err # "panic"
    /\ nextTrie <= MaxTries
    /\ nextTrie' = nextTrie + 1
    /\ childRoot' = [childRoot EXCEPT ![name] = Hash(nextTrie)]
    /\ childTries' = [childTries EXCEPT ![Hash(nextTrie)] = nextTrie]
    /\ cop' = ChildCall("PutChild", name, "k1", 0, "nil")
    /\ UNCHANGED <<trieData, storage, sret>>
    /\ UNCHANGED <<blockVars, notifyVars, buildVars, nodeVars>>

\* A PutIntoChild that makes the child when there is none, instead of failing.
PutIntoChild_create(name, key, value) ==
    /\ cop.err # "panic"
    /\ LET c == GetChild(name)
           origChildHash == IF c.err # "nil" \/ c.child = 0 THEN EmptyTrie ELSE Hash(c.child)
           child == IF c.err # "nil" \/ c.child = 0 THEN 1 ELSE c.child
           childHash == [origChildHash EXCEPT ![key] = value]
       IN  /\ trieData' = [trieData EXCEPT ![child] = childHash]
           /\ childTries' = [[childTries EXCEPT ![origChildHash] = 0]
                                 EXCEPT ![childHash] = child]
           /\ childRoot' = [childRoot EXCEPT ![name] = childHash]
           /\ cop' = ChildCall("PutIntoChild", name, key, value, "nil")
    /\ UNCHANGED <<nextTrie, storage, sret>>
    /\ UNCHANGED <<blockVars, notifyVars, buildVars, nodeVars>>

\* PutIntoChild(keyToChild, key, value): the child is looked up, the pair is put into
\* it, t.childTries forgets its old hash and learns the new one, and PutChild writes
\* the new hash into the parent. A nil child makes child.Hash() panic.
PutIntoChild(name, key, value) ==
    /\ cop.err # "panic"
    /\ LET c == GetChild(name) IN
       IF c.err # "nil"
       THEN /\ cop' = ChildCall("PutIntoChild", name, key, value, c.err)
            /\ UNCHANGED <<trieData, childRoot, childTries>>
       ELSE IF c.child = 0
       THEN /\ cop' = ChildCall("PutIntoChild", name, key, value, "panic")
            /\ UNCHANGED <<trieData, childRoot, childTries>>
       ELSE LET origChildHash == Hash(c.child)
                childHash == [origChildHash EXCEPT ![key] = value]
            IN  /\ trieData' = [trieData EXCEPT ![c.child] = childHash]
                /\ childTries' = [[childTries EXCEPT ![origChildHash] = 0]
                                      EXCEPT ![childHash] = c.child]
                /\ childRoot' = [childRoot EXCEPT ![name] = childHash]
                /\ cop' = ChildCall("PutIntoChild", name, key, value, "nil")
    /\ UNCHANGED <<nextTrie, storage, sret>>
    /\ UNCHANGED <<blockVars, notifyVars, buildVars, nodeVars>>

\* DeleteChild(keyToChild): the parent's entry under the child's key is deleted.
DeleteChild(name) ==
    /\ cop.err # "panic"
    /\ childRoot' = [childRoot EXCEPT ![name] = NoRoot]
    /\ cop' = ChildCall("DeleteChild", name, "k1", 0, "nil")
    /\ UNCHANGED <<trieData, nextTrie, childTries, storage, sret>>
    /\ UNCHANGED <<blockVars, notifyVars, buildVars, nodeVars>>

\* A clear that empties the child.
ClearFromChild_all(name, key) ==
    /\ cop.err # "panic"
    /\ GetChild(name).err = "nil" /\ GetChild(name).child # 0
    /\ trieData' = [trieData EXCEPT ![GetChild(name).child] = EmptyTrie]
    /\ cop' = ChildCall("ClearFromChild", name, key, 0, "nil")
    /\ UNCHANGED <<nextTrie, childRoot, childTries, storage, sret>>
    /\ UNCHANGED <<blockVars, notifyVars, buildVars, nodeVars>>

\* ClearFromChild(keyToChild, key): the key is deleted from the child; neither the
\* parent's entry nor t.childTries is touched.
ClearFromChild(name, key) ==
    /\ cop.err # "panic"
    /\ LET c == GetChild(name) IN
       IF c.err # "nil" \/ c.child = 0
       THEN /\ cop' = ChildCall("ClearFromChild", name, key, 0, "child trie does not exist")
            /\ UNCHANGED trieData
       ELSE /\ trieData' = [trieData EXCEPT ![c.child][key] = 0]
            /\ cop' = ChildCall("ClearFromChild", name, key, 0, "nil")
    /\ UNCHANGED <<nextTrie, childRoot, childTries, storage, sret>>
    /\ UNCHANGED <<blockVars, notifyVars, buildVars, nodeVars>>

NextChild ==
    \/ \E name \in ChildNames : PutChild(name)
    \/ \E name \in ChildNames, key \in ChildKeys, value \in ChildValues :
           PutIntoChild(name, key, value)
    \/ \E name \in ChildNames : DeleteChild(name)
    \/ \E name \in ChildNames, key \in ChildKeys : ClearFromChild(name, key)

SpecChild == Init /\ [][NextChild]_vars

\* ---------------------------------------------------- runtime storage: host API
\* The value stored under a key: Storage.Get.
Get(t, k) == storage[t][k]

\* bytes.HasPrefix: k starts with p.
HasPrefix(k, p) == Len(p) <= Len(k) /\ SubSeq(k, 1, Len(p)) = p

Set_allKeys(t, k, v) == [storage EXCEPT ![t] = [x \in StorageKeys |-> Some(v)]]
\* Storage.Set: the storage after the value of k became v.
Set(t, k, v) == [storage EXCEPT ![t][k] = Some(v)]

\* Storage.Delete: the storage after k lost its value.
Delete(t, k) == [storage EXCEPT ![t][k] = None]

ClearPrefix_all(t, p) == [storage EXCEPT ![t] = [k \in StorageKeys |-> None]]
\* Storage.ClearPrefix: the storage after every key that starts with p lost its value.
ClearPrefix(t, p) ==
    [storage EXCEPT ![t] = [k \in StorageKeys |->
                               IF HasPrefix(k, p) THEN None ELSE storage[t][k]]]

Min(a, b) == IF a <= b THEN a ELSE b

Read_fromStart(v, offset, size) ==
    [err |-> "nil", val |-> Some(SubSeq(v, 1, Min(Len(v), size)))]
\* What a read of the stored bytes v returns: v[offset:], at most size bytes of it.
Read(v, offset, size) ==
    IF offset > Len(v)
    THEN [err |-> "OutOfBounds", val |-> None]
    ELSE [err |-> "nil", val |-> Some(SubSeq(v, offset + 1, Min(Len(v), offset + size)))]

\* A host call and what it returned.
HostCall(op, t, k, offset, size, arg, e, v) ==
    [op |-> op, trie |-> t, key |-> k, offset |-> offset, size |-> size, arg |-> arg,
     err |-> e, val |-> v]

UnchangedByHost ==
    /\ UNCHANGED <<trieData, nextTrie, childRoot, childTries, cop>>
    /\ UNCHANGED <<blockVars, notifyVars, buildVars, nodeVars>>

ext_storage_set_version_1(k, v) ==
    /\ storage' = Set("main", k, v)
    /\ sret' = HostCall("set", "main", k, 0, 0, v, "nil", None)
    /\ UnchangedByHost

ext_storage_get_version_1(k) ==
    /\ sret' = HostCall("get", "main", k, 0, 0, <<>>, "nil", Get("main", k))
    /\ UNCHANGED storage
    /\ UnchangedByHost

ext_storage_clear_version_1(k) ==
    /\ storage' = Delete("main", k)
    /\ sret' = HostCall("clear", "main", k, 0, 0, <<>>, "nil", None)
    /\ UnchangedByHost

ext_storage_clear_prefix_version_1(p) ==
    /\ storage' = ClearPrefix("main", p)
    /\ sret' = HostCall("clear_prefix", "main", p, 0, 0, <<>>, "nil", None)
    /\ UnchangedByHost

ext_storage_read_version_1(k, offset, size) ==
    /\ LET r == IF Get("main", k).some
                THEN Read(Get("main", k).val, offset, size)
                ELSE [err |-> "nil", val |-> None]
       IN  sret' = HostCall("read", "main", k, offset, size, <<>>, r.err, r.val)
    /\ UNCHANGED storage
    /\ UnchangedByHost

\* The child storage functions, on the one child storage of the model.
ext_default_child_storage_set_version_1(k, v) ==
    /\ storage' = Set("child", k, v)
    /\ sret' = HostCall("set", "child", k, 0, 0, v, "nil", None)
    /\ UnchangedByHost

ext_default_child_storage_get_version_1(k) ==
    /\ sret' = HostCall("get", "child", k, 0, 0, <<>>, "nil", Get("child", k))
    /\ UNCHANGED storage
    /\ UnchangedByHost

ext_default_child_storage_clear_version_1(k) ==
    /\ storage' = Delete("child", k)
    /\ sret' = HostCall("clear", "child", k, 0, 0, <<>>, "nil", None)
    /\ UnchangedByHost

ext_default_child_storage_clear_prefix_version_1(p) ==
    /\ storage' = ClearPrefix("child", p)
    /\ sret' = HostCall("clear_prefix", "child", p, 0, 0, <<>>, "nil", None)
    /\ UnchangedByHost

\* bytes.Compare(a, b) < 0: a is before b in the lexicographic order of byte strings.
RECURSIVE Less(_, _)
Less(a, b) ==
    IF b = <<>> THEN FALSE
    ELSE IF a = <<>> THEN TRUE
    ELSE IF Head(a) # Head(b) THEN Head(a) < Head(b)
    ELSE Less(Tail(a), Tail(b))

\* The keys of a storage that have a value.
StoredKeys(t) == {k \in StorageKeys : storage[t][k].some}

NextKey_inclusive(t, k) ==
    LET after == {x \in StoredKeys(t) : x = k \/ Less(k, x)}
    IN  IF after = {} THEN None
        ELSE Some(CHOOSE x \in after : \A y \in after \ {x} : Less(x, y))
\* Storage.NextKey: the first key after k that has a value.
NextKey(t, k) ==
    LET after == {x \in StoredKeys(t) : Less(k, x)}
    IN  IF after = {} THEN None
        ELSE Some(CHOOSE x \in after : \A y \in after \ {x} : Less(x, y))

ext_storage_next_key_version_1(k) ==
    /\ sret' = HostCall("next_key", "main", k, 0, 0, <<>>, "nil", NextKey("main", k))
    /\ UNCHANGED storage
    /\ UnchangedByHost

ext_default_child_storage_next_key_version_1(k) ==
    /\ sret' = HostCall("next_key", "child", k, 0, 0, <<>>, "nil", NextKey("child", k))
    /\ UNCHANGED storage
    /\ UnchangedByHost

\* The offsets and buffer sizes of the reads: up to one past the longest value.
Offsets == 0 .. MaxValLen + 1
BufferSizes == 0 .. MaxValLen

NextStorage ==
    \/ \E k \in StorageKeys, v \in StorageValues : ext_storage_set_version_1(k, v)
    \/ \E k \in StorageKeys : ext_storage_get_version_1(k)
    \/ \E k \in StorageKeys : ext_storage_clear_version_1(k)
    \/ \E p \in Prefixes : ext_storage_clear_prefix_version_1(p)
    \/ \E k \in StorageKeys, offset \in Offsets, size \in BufferSizes :
           ext_storage_read_version_1(k, offset, size)
    \/ \E k \in StorageKeys, v \in ChildStorageValues :
           ext_default_child_storage_set_version_1(k, v)
    \/ \E k \in StorageKeys : ext_default_child_storage_get_version_1(k)
    \/ \E k \in StorageKeys : ext_default_child_storage_clear_version_1(k)
    \/ \E p \in Prefixes : ext_default_child_storage_clear_prefix_version_1(p)
    \/ \E k \in Prefixes : ext_storage_next_key_version_1(k)
    \/ \E k \in Prefixes : ext_default_child_storage_next_key_version_1(k)

SpecStorage == Init /\ [][NextStorage]_vars

\* ------------------------------------------------------------------- syncer
\* (RequestedData & mask) >> log2(mask) == 1, for a mask of one bit.
IsRequested(requested, mask) == (requested \div mask) % 2 = 1

\* BlockState.SubChain: the blocks from start to end, inclusive, in ascending order.
SubChain(start, end) == [i \in 1 .. (end - start + 1) |-> start + i - 1]

BlockDataOf_stored(n, requested) ==
    [hash |-> n,
     header |-> n,
     body |-> n,
     receipt |-> IF "receipt" \in bdStore[n] THEN n ELSE NoDatum,
     messageQueue |-> IF "messageQueue" \in bdStore[n] THEN n ELSE NoDatum,
     justification |-> IF "justification" \in bdStore[n] THEN n ELSE NoDatum]
\* The BlockData of block n in a response: every datum absent by default, then each
\* requested datum that the block state has.
BlockDataOf(n, requested) ==
    [hash |-> n,
     header |-> IF IsRequested(requested, RequestedHeader) THEN n ELSE NoDatum,
     body |-> IF IsRequested(requested, RequestedBody) THEN n ELSE NoDatum,
     receipt |-> IF IsRequested(requested, RequestedReceipt) /\ "receipt" \in bdStore[n]
                 THEN n ELSE NoDatum,
     messageQueue |-> IF IsRequested(requested, RequestedMessageQueue)
                         /\ "messageQueue" \in bdStore[n]
                      THEN n ELSE NoDatum,
     justification |-> IF IsRequested(requested, RequestedJustification)
                          /\ "justification" \in bdStore[n]
                       THEN n ELSE NoDatum]

UnchangedBySync ==
    UNCHANGED <<blockVars, notifyVars, buildVars, storeVars, netVars, cmdVars, grandpaVars>>

\* BlockState.CompareAndSetBlockData: stores the data of bd that are set.
CompareAndSetBlockData(n, bd) ==
    /\ bdStore' = [bdStore EXCEPT ![n] = @ \cup bd]
    /\ scall' = [op |-> "CompareAndSetBlockData", start |-> n, end |-> n, requested |-> 0,
                 err |-> "nil"]
    /\ bresp' = <<>>
    /\ UnchangedBySync

\* Service.CreateBlockResponse for a request from block number start to the block end,
\* ascending.
CreateBlockResponse(start, end, requested) ==
    /\ IF start <= end
       THEN /\ bresp' = [i \in 1 .. Len(SubChain(start, end)) |->
                            BlockDataOf(SubChain(start, end)[i], requested)]
            /\ scall' = [op |-> "CreateBlockResponse", start |-> start, end |-> end,
                         requested |-> requested, err |-> "nil"]
       ELSE /\ bresp' = <<>>
            /\ scall' = [op |-> "CreateBlockResponse", start |-> start, end |-> end,
                         requested |-> requested, err |-> "start is not before end"]
    /\ UNCHANGED bdStore
    /\ UnchangedBySync

NextSync ==
    \/ \E n \in SyncBlocks, bd \in BlockDatas : CompareAndSetBlockData(n, bd)
    \/ \E start \in SyncBlocks, end \in SyncBlocks, requested \in RequestedDatas :
           CreateBlockResponse(start, end, requested)

SpecSync == Init /\ [][NextSync]_vars

\* ---------------------------------------------------------- network service
\* messageCache.exists: the cache has an entry for (peer, message) that has not expired.
Exists(p, m) == msgCache[p][m] # 0 /\ netNow < msgCache[p][m]

UnchangedByNetwork ==
    UNCHANGED <<blockVars, notifyVars, buildVars, storeVars, syncVars, cmdVars, grandpaVars>>

\* The peers a message is sent to: with a cache, those it has no live entry for.
Receivers_all(m) == Peers
Receivers(m) == IF cacheOn THEN {p \in Peers : ~Exists(p, m)} ELSE Peers

\* Service.SendMessage: broadcasts the message to every peer of its protocol; with a
\* message cache, a peer is skipped when messageCache.put finds the message there.
SendMessage(m) ==
    /\ Len(sendCalls) < MaxSends
    /\ sendCalls' = Append(sendCalls, [msg |-> m, at |-> netNow, cached |-> cacheOn])
    /\ netMessages' = [p \in Peers |->
                          IF p \in Receivers(m)
                          THEN Append(netMessages[p],
                                      [msg |-> m, at |-> netNow, call |-> Len(sendCalls) + 1])
                          ELSE netMessages[p]]
    /\ msgCache' = IF cacheOn
                   THEN [p \in Peers |->
                            IF p \in Receivers(m)
                            THEN [msgCache[p] EXCEPT ![m] = netNow + MsgCacheTTL]
                            ELSE msgCache[p]]
                   ELSE msgCache
    /\ UNCHANGED <<cacheOn, netNow>>
    /\ UnchangedByNetwork

\* nodeA.host.messageCache = nil
DisableCache ==
    /\ cacheOn
    /\ cacheOn' = FALSE
    /\ UNCHANGED <<msgCache, netNow, sendCalls, netMessages>>
    /\ UnchangedByNetwork

\* Time passes.
NetTick ==
    /\ netNow < MaxClock
    /\ netNow' = netNow + 1
    /\ UNCHANGED <<msgCache, cacheOn, sendCalls, netMessages>>
    /\ UnchangedByNetwork

NextNetwork ==
    \/ \E m \in Messages : SendMessage(m)
    \/ DisableCache
    \/ NetTick

SpecNetwork == Init /\ [][NextNetwork]_vars

\* ------------------------------------------------------------- command line
UnchangedByCommand ==
    UNCHANGED <<blockVars, notifyVars, buildVars, storeVars, syncVars, netVars, grandpaVars>>

\* A call made by the command: on success the command goes on at next, on failure it
\* returns the error.
Called(call, ok, next) ==
    [cmd EXCEPT !.calls = Append(@, call),
                !.pc = IF ok THEN next ELSE "returned",
                !.err = IF ok THEN @ ELSE call]

\* gossamerAction: the check for unknown command arguments.
gossamerAction ==
    /\ cmd.name = "gossamer" /\ cmd.pc = "start"
    /\ cmd' = IF cmd.args > 0
              THEN [cmd EXCEPT !.pc = "returned", !.err = "failed to read command argument"]
              ELSE [cmd EXCEPT !.pc = "beginProfile"]
    /\ UNCHANGED dotNode
    /\ UnchangedByCommand

beginProfile(ok) ==
    /\ cmd.pc = "beginProfile"
    /\ cmd' = Called("beginProfile", ok, "setupLogger")
    /\ UNCHANGED dotNode
    /\ UnchangedByCommand

setupLogger(ok) ==
    /\ cmd.pc = "setupLogger"
    /\ cmd' = Called("setupLogger", ok, "createDotConfig")
    /\ UNCHANGED dotNode
    /\ UnchangedByCommand

createDotConfig(ok) ==
    /\ cmd.pc = "createDotConfig"
    /\ cmd' = Called("createDotConfig", ok, "NodeInitialized")
    /\ UNCHANGED dotNode
    /\ UnchangedByCommand

NodeInitialized_never ==
    /\ cmd.pc = "NodeInitialized"
    /\ cmd' = Called("NodeInitialized", TRUE, "InitNode")
    /\ UNCHANGED dotNode
    /\ UnchangedByCommand

\* if !dot.NodeInitialized(cfg.Global.BasePath, true)
NodeInitialized ==
    /\ cmd.pc = "NodeInitialized"
    /\ cmd' = Called("NodeInitialized", TRUE,
                     IF dotNode.initialized THEN "updateDotConfigFromGenesisData"
                     ELSE "InitNode")
    /\ UNCHANGED dotNode
    /\ UnchangedByCommand

\* dot.InitNode(cfg): initialises the state database at the base path.
InitNode(ok) ==
    /\ cmd.pc = "InitNode"
    /\ cmd' = Called("InitNode", ok, "updateDotConfigFromGenesisData")
    /\ dotNode' = [dotNode EXCEPT !.initialized = ok]
    /\ UnchangedByCommand

updateDotConfigFromGenesisData(ok) ==
    /\ cmd.pc = "updateDotConfigFromGenesisData"
    /\ cmd' = Called("updateDotConfigFromGenesisData", ok, "LoadKeystore1")
    /\ UNCHANGED dotNode
    /\ UnchangedByCommand

\* keystore.LoadKeystore for the account, BABE and grandpa keystores, in turn.
LoadKeystore(ok) ==
    /\ cmd.pc \in {"LoadKeystore1", "LoadKeystore2", "LoadKeystore3"}
    /\ cmd' = Called("LoadKeystore", ok,
                     IF cmd.pc = "LoadKeystore1" THEN "LoadKeystore2"
                     ELSE IF cmd.pc = "LoadKeystore2" THEN "LoadKeystore3"
                     ELSE "unlockKeystore1")
    /\ UNCHANGED dotNode
    /\ UnchangedByCommand

\* unlockKeystore for the three keystores, in turn.
unlockKeystore(ok) ==
    /\ cmd.pc \in {"unlockKeystore1", "unlockKeystore2", "unlockKeystore3"}
    /\ cmd' = Called("unlockKeystore", ok,
                     IF cmd.pc = "unlockKeystore1" THEN "unlockKeystore2"
                     ELSE IF cmd.pc = "unlockKeystore2" THEN "unlockKeystore3"
                     ELSE "NewNode")
    /\ UNCHANGED dotNode
    /\ UnchangedByCommand

\* dot.NewNode(cfg, ks, stopFunc)
NewNode(ok) ==
    /\ cmd.pc = "NewNode"
    /\ cmd' = Called("NewNode", ok, "Start")
    /\ dotNode' = [dotNode EXCEPT !.created = ok]
    /\ UnchangedByCommand

\* node.Start()
Start(ok) ==
    /\ cmd.pc = "Start"
    /\ cmd' = Called("Start", ok, "returned")
    /\ dotNode' = [dotNode EXCEPT !.started = ok]
    /\ UnchangedByCommand

\* importStateAction: the checks of --state, --header and --first-slot.
importStateAction ==
    /\ cmd.name = "import-state" /\ cmd.pc = "start"
    /\ cmd' = IF cmd.stateFP = ""
              THEN [cmd EXCEPT !.pc = "returned", !.err = "must provide argument to --state"]
              ELSE IF cmd.headerFP = ""
              THEN [cmd EXCEPT !.pc = "returned", !.err = "must provide argument to --header"]
              ELSE IF cmd.firstSlot = 0
              THEN [cmd EXCEPT !.pc = "returned",
                               !.err = "must provide argument to --first-slot"]
              ELSE [cmd EXCEPT !.pc = "createImportStateConfig"]
    /\ UNCHANGED dotNode
    /\ UnchangedByCommand

createImportStateConfig(ok) ==
    /\ cmd.pc = "createImportStateConfig"
    /\ cmd' = Called("createImportStateConfig", ok, "ImportState")
    /\ UNCHANGED dotNode
    /\ UnchangedByCommand

\* dot.ImportState(cfg.Global.BasePath, stateFP, headerFP, uint64(firstSlot))
ImportState(ok) ==
    /\ cmd.pc = "ImportState"
    /\ cmd' = Called("ImportState", ok, "returned")
    /\ dotNode' = [dotNode EXCEPT !.imports =
                       Append(@, [stateFP |-> cmd.stateFP, headerFP |-> cmd.headerFP,
                                  firstSlot |-> uint64(cmd.firstSlot), ok |-> ok])]
    /\ UnchangedByCommand

\* A command line given to the program, on a base path that is initialised or not.
InitCommand ==
    /\ NewBlockStateFromGenesis /\ NoSubscribers /\ BuilderIdle /\ StorageEmpty
    /\ SyncerIdle /\ NetworkIdle /\ GrandpaIdle
    /\ \/ \E nargs \in {0, 1} : cmd = CommandLine("gossamer", nargs, "", "", 0)
       \/ \E stateFP \in StateFiles, headerFP \in HeaderFiles, firstSlot \in FirstSlots :
              cmd = CommandLine("import-state", 0, stateFP, headerFP, firstSlot)
    /\ \E initialized \in BOOLEAN : dotNode = BasePath(initialized)

NextCommand ==
    \/ gossamerAction
    \/ \E ok \in BOOLEAN : beginProfile(ok)
    \/ \E ok \in BOOLEAN : setupLogger(ok)
    \/ \E ok \in BOOLEAN : createDotConfig(ok)
    \/ NodeInitialized
    \/ \E ok \in BOOLEAN : InitNode(ok)
    \/ \E ok \in BOOLEAN : updateDotConfigFromGenesisData(ok)
    \/ \E ok \in BOOLEAN : LoadKeystore(ok)
    \/ \E ok \in BOOLEAN : unlockKeystore(ok)
    \/ \E ok \in BOOLEAN : NewNode(ok)
    \/ \E ok \in BOOLEAN : Start(ok)
    \/ importStateAction
    \/ \E ok \in BOOLEAN : createImportStateConfig(ok)
    \/ \E ok \in BOOLEAN : ImportState(ok)

SpecCommand == InitCommand /\ [][NextCommand]_vars

\* --------------------------------------------------------- GRANDPA gossip

UnchangedByGrandpa ==
    UNCHANGED <<blockVars, notifyVars, buildVars, storeVars, syncVars, netVars, cmdVars>>

\* decodeMessage(cm): the message the data encode, or an error.
decodeMessage(cm) ==
    IF cm.data[1] \in MessageTypes
    THEN [err |-> "nil", type |-> cm.data[1]]
    ELSE [err |-> "decode error", type |-> "none"]

\* A service that propagates every message it has handled.
Propagates_always(type) == TRUE
\* The end of handleNetworkMessage: neighbour messages and catch-up responses are not
\* propagated, every other message is.
Propagates(type) == ~(type = neighbourType \/ type = catchUpResponseType)

\* A service that sends the response without looking at it.
ResponseOf_always(resp) == <<resp>>
\* if resp != nil { s.network.SendMessage(resp) }: what is sent for a response.
ResponseOf(resp) == IF resp # NoMessage THEN <<resp>> ELSE <<>>

GossipCall(msg, handled, propagate, e) ==
    [msg |-> msg, handled |-> handled, propagate |-> propagate, err |-> e]

\* handleNetworkMessage(from, msg), where messageHandler.handleMessage returns handled
\* when it is called.
handleNetworkMessage(msg, handled) ==
    /\ Len(gossip) < MaxGossip
    /\ IF msg.kind = "nil"
       THEN /\ hcall' = GossipCall(msg, handled, FALSE, "nil")
            /\ UNCHANGED gossip
       ELSE IF msg.kind # "ConsensusMessage"
       THEN /\ hcall' = GossipCall(msg, handled, FALSE, "ErrInvalidMessageType")
            /\ UNCHANGED gossip
       ELSE IF Len(msg.data) = 0
       THEN /\ hcall' = GossipCall(msg, handled, FALSE, "nil")
            /\ UNCHANGED gossip
       ELSE IF decodeMessage(msg).err # "nil"
       THEN /\ hcall' = GossipCall(msg, handled, FALSE, decodeMessage(msg).err)
            /\ UNCHANGED gossip
       ELSE IF handled.err # "nil"
       THEN /\ hcall' = GossipCall(msg, handled, FALSE, handled.err)
            /\ UNCHANGED gossip
       ELSE /\ gossip' = gossip \o ResponseOf(handled.resp)
            /\ hcall' = GossipCall(msg, handled, Propagates(decodeMessage(msg).type), "nil")
    /\ UNCHANGED <<npc, neighbourMessage, finalisedCh, ctxDone, lastInfo>>
    /\ UnchangedByGrandpa

NextGossip ==
    \E msg \in NotificationsMessages, handled \in HandlerResults :
        handleNetworkMessage(msg, handled)

SpecGossip == Init /\ [][NextGossip]_vars

\* The goroutine of sendNeighbourMessage is started.
sendNeighbourMessage ==
    /\ npc = "idle"
    /\ npc' = "running"
    /\ UNCHANGED <<hcall, gossip, neighbourMessage, finalisedCh, ctxDone, lastInfo>>
    /\ UnchangedByGrandpa

\* &NeighbourMessage{Version: 1, Round: info.Round, SetID: info.SetID,
\*                    Number: uint32(info.Header.Number.Int64())}
NeighbourMessage(info) ==
    GossipMessage("neighbour", 1, info.round, info.setID, uint32(info.number))

\* The end of the loop body: s.neighbourMessage.ToConsensusMessage(), and
\* s.network.SendMessage(cm) unless the conversion failed.
Broadcast(nm, ok) == IF ok THEN Append(gossip, nm) ELSE gossip

\* A loop that goes on when the context is cancelled.
NeighbourCtxDone_ignored ==
    /\ npc = "running"
    /\ ctxDone
    /\ UNCHANGED <<hcall, gossip, npc, neighbourMessage, finalisedCh, ctxDone, lastInfo>>
    /\ UnchangedByGrandpa

\* case <-s.ctx.Done(): return
NeighbourCtxDone ==
    /\ npc = "running"
    /\ ctxDone
    /\ npc' = "returned"
    /\ UNCHANGED <<hcall, gossip, neighbourMessage, finalisedCh, ctxDone, lastInfo>>
    /\ UnchangedByGrandpa

\* case <-time.After(neighbourMessageInterval): the loop goes on when there is no
\* neighbour message yet, and broadcasts the one there is otherwise.
NeighbourInterval(ok) ==
    /\ npc = "running"
    /\ Len(gossip) < MaxGossip
    /\ gossip' = IF neighbourMessage = NoMessage THEN gossip ELSE Broadcast(neighbourMessage, ok)
    /\ UNCHANGED <<hcall, npc, neighbourMessage, finalisedCh, ctxDone, lastInfo>>
    /\ UnchangedByGrandpa

\* case info, ok := <-s.finalisedCh with an info: the neighbour message is made from
\* it and broadcast.
NeighbourFinalised(ok) ==
    /\ npc = "running"
    /\ finalisedCh.buf # <<>>
    /\ LET info == Head(finalisedCh.buf) IN
           /\ finalisedCh' = [finalisedCh EXCEPT !.buf = Tail(@)]
           /\ lastInfo' = info
           /\ neighbourMessage' = NeighbourMessage(info)
           /\ gossip' = Broadcast(NeighbourMessage(info), ok)
    /\ UNCHANGED <<hcall, npc, ctxDone>>
    /\ UnchangedByGrandpa

\* case info, ok := <-s.finalisedCh on the closed and empty channel: return.
NeighbourChannelClosed ==
    /\ npc = "running"
    /\ finalisedCh.buf = <<>>
    /\ finalisedCh.closed
    /\ npc' = "returned"
    /\ UNCHANGED <<hcall, gossip, neighbourMessage, finalisedCh, ctxDone, lastInfo>>
    /\ UnchangedByGrandpa

\* The block state puts a finalisation into the channel of the service.
NotifyFinalisation(info) ==
    /\ ~finalisedCh.closed
    /\ Len(finalisedCh.buf) < ChanCap
    /\ Len(finalisedCh.buf) + Len(gossip) < MaxGossip
    /\ finalisedCh' = [finalisedCh EXCEPT !.buf = Append(@, info)]
    /\ UNCHANGED <<hcall, gossip, npc, neighbourMessage, ctxDone, lastInfo>>
    /\ UnchangedByGrandpa

\* The service is stopped: its context is cancelled.
CancelContext ==
    /\ ~ctxDone
    /\ ctxDone' = TRUE
    /\ UNCHANGED <<hcall, gossip, npc, neighbourMessage, finalisedCh, lastInfo>>
    /\ UnchangedByGrandpa

\* The finalised-block channel is closed.
CloseFinalisedCh ==
    /\ ~finalisedCh.closed
    /\ finalisedCh' = [finalisedCh EXCEPT !.closed = TRUE]
    /\ UNCHANGED <<hcall, gossip, npc, neighbourMessage, ctxDone, lastInfo>>
    /\ UnchangedByGrandpa

NextNeighbour ==
    \/ sendNeighbourMessage
    \/ NeighbourCtxDone
    \/ \E ok \in BOOLEAN : NeighbourInterval(ok)
    \/ \E ok \in BOOLEAN : NeighbourFinalised(ok)
    \/ NeighbourChannelClosed
    \/ \E info \in FinalisationInfos : NotifyFinalisation(info)
    \/ CancelContext
    \/ CloseFinalisedCh

SpecNeighbour == Init /\ [][NextNeighbour]_vars

\* The scheduler runs the goroutine: a case of its select that stays ready is taken.
FairNeighbour ==
    /\ WF_vars(sendNeighbourMessage)
    /\ WF_vars(NeighbourCtxDone)
    /\ WF_vars(\E ok \in BOOLEAN : NeighbourFinalised(ok))
    /\ WF_vars(NeighbourChannelClosed)

SpecNeighbourFair == SpecNeighbour /\ FairNeighbour

\* ------------------------------------------------------- block state claims

\* C1: no finality reversion. Whenever a SetFinalizedHash call records a hash as
\* finalised, that hash is the current finalised root of the tree or one of its
\* descendants; a call with any other hash records nothing.
C1_NoFinalityReversion ==
    [][\A k \in FinKeys :
          finalized'[k] # finalized[k] => IsDescendantOf(btRoot, finalized'[k])]_vars

\* C2: finalisation pruning. When a block fin of the tree is finalised (it becomes the
\* root), every block of the tree that is neither fin, an ancestor of fin nor a
\* descendant of fin leaves the tree and its header and body are no longer stored;
\* every ancestor of fin that leaves the tree keeps its header and body.
C2_FinalisationPruning ==
    [][btRoot' # btRoot =>
          \A b \in btNodes :
              /\ (~IsDescendantOf(b, btRoot') /\ ~IsDescendantOf(btRoot', b))
                     => (b \notin btNodes' /\ ~HasHeader(b)' /\ ~HasBlockBody(b)')
              /\ (IsDescendantOf(b, btRoot') /\ b \notin btNodes')
                     => (HasHeader(b)' /\ HasBlockBody(b)')]_vars

\* C2 witness: a finalisation has pruned a tree with forks: an ancestor of the root has
\* left the tree with its header kept, and a block of another branch has lost its header.
C2_Witness ==
    \E a, f \in KnownHashes :
        /\ a \in AncestorsOf(btRoot) /\ a \notin btNodes /\ HasHeader(a) /\ HasBlockBody(a)
        /\ f # Genesis /\ f \notin AncestorsOf(btRoot) /\ f \notin btNodes
        /\ ~HasHeader(f) /\ ~HasBlockBody(f)

\* The leaf with the greatest number and, among those, the earliest arrival.
IsGreatestEarliestLeaf(l) ==
    /\ l \in Leaves(btNodes, hdrParent)
    /\ \A m \in Leaves(btNodes, hdrParent) :
           \/ hdrNumber[m] < hdrNumber[l]
           \/ (hdrNumber[m] = hdrNumber[l] /\ arrival[l] <= arrival[m])

\* C3: fork choice. After every successful AddBlock the best head is the leaf with the
\* greatest number, the earliest-arrived among equals; a block that extends the best
\* head becomes the best head and a block of the best head's number does not.
C3_ForkChoice ==
    [][nextHash' # nextHash =>
          /\ IsGreatestEarliestLeaf(BestBlockHash)'
          /\ hdrParent'[nextHash] = BestBlockHash => BestBlockHash' = nextHash
          /\ hdrNumber'[nextHash] = BestBlockNumber => BestBlockHash' # nextHash]_vars

\* The block at height n of the current chain (n blocks between it and genesis).
AtHeight(n) == {b \in CurrentChain : Cardinality(AncestorsOf(b)) = n}

\* C4: the number index follows the canonical chain. After any sequence of AddBlock
\* calls (no finalisation has moved the root), for every number n up to the best block
\* number GetHashByNumber(n) is the block at height n of the chain from the root to the
\* best head, and isBlockOnCurrentChain holds exactly for the blocks of that chain.
C4_NumberIndexFollowsChain ==
    btRoot = Genesis =>
        /\ \A n \in 0 .. BestBlockNumber : AtHeight(n) = {GetHashByNumber(n)}
        /\ \A h \in btNodes : isBlockOnCurrentChain(h) <=> IsDescendantOf(h, BestBlockHash)

\* ------------------------------------------------------ notification claims

\* C5: imported-block notifications arrive in insertion order. A channel registered
\* for imported blocks never receives a block that was imported before the block it
\* received last.
C5_ImportedInOrder ==
    [][\A ch \in ImpChans :
          (lastSent[ch] # NoHash /\ lastSent'[ch] # lastSent[ch])
              => arrival[lastSent'[ch]] > arrival[lastSent[ch]]]_vars

\* C6: finalisation notifications arrive in monotone block-number order. A channel
\* registered for finalised blocks never receives a finalised block whose number is
\* lower than that of the one it received last.
C6_FinalisedInOrder ==
    [][\A ch \in FinChans :
          (lastSent[ch] # NoHash /\ lastSent'[ch] # lastSent[ch])
              => hdrNumber[lastSent'[ch]] > hdrNumber[lastSent[ch]]]_vars

\* C7: subscriber channels are drop-on-full and never block the emitter. Whatever the
\* channels hold, the next import and the finalisation of any block of the tree can
\* take place, and a step of the block state leaves the channels untouched and only
\* spawns sends; every spawned send can run on its own; it puts its message into its
\* channel when there is room and gives it up otherwise, and it changes no other
\* channel and no other pending send.
C7_DropOnFull ==
    [][/\ nextHash <= MaxImports => ENABLED ImportBlock
       /\ \A h \in btNodes : ENABLED SetFinalizedHash(h, <<1, 1>>)
       /\ \A g \in sendq : ENABLED SendNotification(g)
       /\ blockVars' # blockVars => (chanBuf' = chanBuf /\ sendq \subseteq sendq')
       /\ \A g \in sendq \ sendq' :
             /\ sendq' = sendq \ {g}
             /\ \A c \in Chans \ {g.ch} : chanBuf'[c] = chanBuf[c]
             /\ IF Len(chanBuf[g.ch]) < ChanCap
                THEN chanBuf'[g.ch] = Append(chanBuf[g.ch], g.msg) /\ g \notin dropped'
                ELSE chanBuf'[g.ch] = chanBuf[g.ch] /\ g \in dropped']_vars

\* C7 witness: a notification was given up for a subscriber whose channel was full
\* and was received by the other subscriber.
C7_Witness ==
    \E g \in dropped : \E c \in Chans \ {g.ch} :
        lastSent[c] = g.msg /\ Len(chanBuf[g.ch]) = ChanCap

\* ------------------------------------------------------ block builder claims

IsApplyOf(c, kind) == c.op = "ApplyExtrinsic" /\ c.ext[1] = kind

\* C8: block-assembly call order. Nothing is called after FinalizeBlock; a pool
\* transaction is applied only after every returned inherent has been applied; and
\* when buildBlock returns a block the runtime calls were InitializeBlock,
\* InherentExtrinsics, ApplyExtrinsic for each returned inherent in turn, ApplyExtrinsic
\* for pool transactions, and one FinalizeBlock, in that order.
C8_CallOrder ==
    LET k == Len(inherentExts)
        n == Len(calls)
    IN  /\ \A i \in 1 .. n : calls[i].op = "FinalizeBlock" => i = n
        /\ \A i \in 1 .. n :
               IsApplyOf(calls[i], "tx")
                   => Cardinality({j \in 1 .. (i - 1) : IsApplyOf(calls[j], "inherent")}) = k
        /\ bpc = "returned" =>
               /\ n >= k + 3
               /\ calls[1].op = "InitializeBlock"
               /\ calls[2].op = "InherentExtrinsics"
               /\ \A j \in 1 .. k :
                      calls[2 + j] = Call("ApplyExtrinsic", <<"inherent", inherentExts[j]>>)
               /\ \A j \in (k + 3) .. (n - 1) : IsApplyOf(calls[j], "tx")
               /\ calls[n].op = "FinalizeBlock"

\* C8 witness: a block was returned after every inherent the runtime can return and a
\* pool transaction were applied.
C8_Witness ==
    /\ bpc = "returned"
    /\ Len(inherentExts) = MaxInherents
    /\ \E i \in 1 .. Len(calls) : IsApplyOf(calls[i], "tx")

\* The popped transactions whose apply call returned success or a dispatch-outcome error.
KeptOfPopped ==
    LET kept == SelectSeq(popped, LAMBDA e : e.outcome \in {"success", "dispatchError"})
    IN  [i \in 1 .. Len(kept) |-> kept[i].tx]

C10_DrainStopRule ==
    [][Len(popped') > Len(popped) =>
          /\ ~hasSlotEnded(slot)
          /\ popped'[Len(popped')].tx = Head(txQueue)
          /\ \A i \in 1 .. Len(popped) : popped[i].outcome # "exhausted"]_vars

\* C11: inherent failure is fatal for the block. Once the runtime has answered the
\* application of an inherent with anything but success (another result, or a failed
\* call), that call is the last one made to the runtime, the build has ended with an
\* error and without a block, no transaction has been popped from the pool and
\* FinalizeBlock has not been called.
C11_InherentFailureFatal ==
    \A i \in 1 .. Len(calls) :
        (IsApplyOf(calls[i], "inherent") /\ rets[i] # "success") =>
            /\ i = Len(calls)
            /\ bpc = "failed"
            /\ buildErr # "nil"
            /\ built = <<>>
            /\ popped = <<>>
            /\ \A j \in 1 .. Len(calls) : calls[j].op # "FinalizeBlock"

\* C11 witness: the second inherent failed after the first was applied, with
\* transactions waiting in the pool.
C11_Witness ==
    /\ bpc = "failed"
    /\ Len(calls) = 4
    /\ IsApplyOf(calls[4], "inherent")
    /\ rets[3] = "success"
    /\ rets[4] \in {"callFailed", "dispatchError"}
    /\ txQueue # <<>>

\* The steps of buildBlock that belong to building: the runtime is at work.
Building == {"initialize", "inherents", "applyInherents", "extrinsics", "finalize"}

\* C12: not authorised slots build nothing. Without a proof for the slot, buildBlock
\* ends with ErrNotAuthorized; it calls no runtime function, pops no transaction,
\* returns no block and never gets to building or sealing.
C12_NotAuthorizedBuildsNothing ==
    (~authorized /\ bpc # "idle") =>
        /\ bpc \in {"start", "failed"}
        /\ bpc \notin Building
        /\ bpc = "failed" => buildErr = "ErrNotAuthorized"
        /\ calls = <<>>
        /\ popped = <<>>
        /\ built = <<>>
        /\ header = NoHeader

\* C12 witness: buildBlock has returned ErrNotAuthorized with transactions in the pool.
C12_Witness ==
    /\ ~authorized
    /\ bpc = "failed"
    /\ buildErr = "ErrNotAuthorized"
    /\ Len(txQueue) = MaxPool

\* The header the runtime returned from FinalizeBlock (the call succeeded).
ReturnedByRuntime == rets[Len(rets)]

\* C13: the built header links to its parent. The header of every block buildBlock
\* returns has the hash of the given parent as ParentHash and the parent's number + 1
\* as Number, whatever header FinalizeBlock returned.
C13_HeaderLinksToParent ==
    bpc = "returned" =>
        /\ header.parentHash = parentHdr.hash
        /\ header.number = parentHdr.number + 1

\* C13 witness: a block was returned on a parent other than genesis although the
\* runtime returned a header of another parent and another number.
C13_Witness ==
    /\ bpc = "returned"
    /\ parentHdr.hash # Genesis
    /\ ReturnedByRuntime.parentHash # parentHdr.hash
    /\ ReturnedByRuntime.number # parentHdr.number + 1

\* C14: digest shape of an authored block. The digest of the header of every block
\* buildBlock returns ends with the BABE pre-runtime digest followed by the seal, holds
\* no other seal, and begins with the digest items of the header the runtime returned.
C14_DigestShape ==
    bpc = "returned" =>
        LET d == header.digest
            n == Len(d)
        IN  /\ n >= 2
            /\ d[n] = SealDigest
            /\ d[n - 1] = PreRuntimeDigest
            /\ Cardinality({i \in 1 .. n : d[i] = SealDigest}) = 1
            /\ SubSeq(d, 1, n - 2) = ReturnedByRuntime.digest

\* C14 witness: a block was returned whose header carries a digest item of the runtime.
C14_Witness ==
    /\ bpc = "returned"
    /\ ReturnedByRuntime.digest # <<>>
    /\ Len(header.digest) = Len(ReturnedByRuntime.digest) + 2

\* C15: block-tree structural invariant. The tree has its root and no other block
\* without a parent in the tree, and the number of every block other than the root is
\* the number of its parent + 1; an AddBlock with a header of an unknown parent or of
\* another number leaves the tree as it is.
C15_TreeStructure ==
    /\ btRoot \in btNodes
    /\ \A b \in btNodes \ {btRoot} :
           /\ hdrParent[b] \in btNodes
           /\ hdrNumber[b] = hdrNumber[hdrParent[b]] + 1

\* ------------------------------------------------------------ storage claims

\* C16: child-root invariant. For every child name with an entry in the parent, the
\* hash stored in the parent under the child's key is the root hash of the child trie
\* GetChild returns for that name.
C16_ChildRoot ==
    \A name \in ChildNames :
        childRoot[name] # NoRoot =>
            /\ GetChild(name).child # 0
            /\ childRoot[name] = Hash(GetChild(name).child)

C18_SetGetRoundTrip ==
    [][\A t \in Tries, k \in StorageKeys :
          /\ (sret'.op = "set" /\ sret'.trie = t /\ sret'.key = k) =>
                 /\ Get(t, k)' = Some(sret'.arg)
                 /\ \A x \in StorageKeys \ {k} : Get(t, x)' = Get(t, x)
          /\ (Get(t, k)' # Get(t, k) /\ Get(t, k)'.some) =>
                 (sret'.op = "set" /\ sret'.trie = t /\ sret'.key = k)
          /\ (sret'.op = "clear" /\ sret'.trie = t /\ sret'.key = k) =>
                 ~Get(t, k)'.some
          /\ (sret'.op = "get" /\ sret'.trie = t /\ sret'.key = k) =>
                 /\ sret'.val = Get(t, k)
                 /\ storage' = storage]_vars

\* C18 witness: a get returned the bytes set for its key while another key of the
\* storage holds other bytes.
C18_Witness ==
    /\ sret.op = "get"
    /\ sret.trie = "main"
    /\ sret.val.some
    /\ Len(sret.val.val) > 0
    /\ \E x \in StorageKeys \ {sret.key} :
           Get("main", x).some /\ Get("main", x) # sret.val

\* The byte strings a key can continue a prefix with.
Suffixes == {<<>>, <<1>>, <<2>>, <<1, 1>>, <<1, 2>>, <<2, 1>>, <<2, 2>>}
StartsWith(k, p) == \E s \in Suffixes : k = p \o s

\* C19: clear_prefix frame. After a clear_prefix of p, of the storage or of the child
\* storage, a key that starts with p has no value and every other key of that storage
\* has the value it had; the other storage is as it was.
C19_ClearPrefixFrame ==
    [][\A t \in Tries, p \in Prefixes :
          (sret'.op = "clear_prefix" /\ sret'.trie = t /\ sret'.key = p) =>
              /\ \A k \in StorageKeys :
                     Get(t, k)' = IF StartsWith(k, p) THEN None ELSE Get(t, k)
              /\ \A o \in Tries \ {t} : storage'[o] = storage[o]]_vars

\* C19 witness: a clear_prefix of a prefix that is no key's whole storage: a key that
\* starts with it is without a value and a key that does not start with it has one.
C19_Witness ==
    /\ sret.op = "clear_prefix"
    /\ sret.key # <<>>
    /\ \E k \in StorageKeys : StartsWith(k, sret.key) /\ k # sret.key
    /\ \E k \in StorageKeys : ~StartsWith(k, sret.key) /\ Get(sret.trie, k).some

\* C20: read with offset. A read of a key that has the value v, with an offset of at most
\* Len(v), returns the bytes of v after the first offset ones, at most buffer-size of
\* them (none when the offset is Len(v)); with a larger offset it fails with OutOfBounds;
\* no read changes the storage.
C20_ReadWithOffset ==
    [][\A k \in StorageKeys :
          (sret'.op = "read" /\ sret'.key = k) =>
              /\ storage' = storage
              /\ Get("main", k).some =>
                     LET v == Get("main", k).val
                         offset == sret'.offset
                         n == Len(v) - offset
                     IN  IF offset > Len(v)
                         THEN sret'.err = "OutOfBounds"
                         ELSE /\ sret'.err = "nil"
                              /\ sret'.val.some
                              /\ Len(sret'.val.val) = (IF sret'.size < n THEN sret'.size ELSE n)
                              /\ \A i \in 1 .. Len(sret'.val.val) :
                                     sret'.val.val[i] = v[offset + i]]_vars

\* C20 witness: a read past the first byte of a value returned some of the bytes that
\* follow, cut to the buffer size.
C20_Witness ==
    /\ sret.op = "read"
    /\ sret.err = "nil"
    /\ sret.offset > 0
    /\ sret.val.some
    /\ Len(sret.val.val) = sret.size
    /\ sret.size > 0
    /\ sret.offset + sret.size < Len(Get("main", sret.key).val)

\* a is before b: a is a proper prefix of b, or at the first place where they differ
\* the byte of a is the smaller.
Before(a, b) ==
    \/ Len(a) < Len(b) /\ \A i \in 1 .. Len(a) : a[i] = b[i]
    \/ \E i \in 1 .. Min(Len(a), Len(b)) :
           /\ a[i] < b[i]
           /\ \A j \in 1 .. i - 1 : a[j] = b[j]

\* C21: next_key. A next_key of k, on the storage or the child storage, returns a key
\* that has a value and is after k in the lexicographic order of byte strings, with no
\* key that has a value between k and it; it returns nothing exactly when no key that
\* has a value is after k; it never returns k.
C21_NextKey ==
    (sret.op = "next_key") =>
        LET k == sret.key
            stored == {x \in StorageKeys : Get(sret.trie, x).some}
        IN  /\ sret.val.some =>
                   /\ sret.val.val \in stored
                   /\ Before(k, sret.val.val)
                   /\ sret.val.val # k
                   /\ \A x \in stored : Before(k, x) => (x = sret.val.val \/ Before(sret.val.val, x))
            /\ ~sret.val.some => \A x \in stored : ~Before(k, x)

\* C21 witness: a next_key of a key that has a value returned the nearer of two keys
\* after it that have values.
C21_Witness ==
    /\ sret.op = "next_key"
    /\ sret.key \in StorageKeys
    /\ Get(sret.trie, sret.key).some
    /\ sret.val.some
    /\ \E x \in StorageKeys : Get(sret.trie, x).some /\ Before(sret.val.val, x)

\* The sums of distinct bits: RequestedData as the set of its bits.
RECURSIVE SumOf(_)
SumOf(S) == IF S = {} THEN 0 ELSE LET b == CHOOSE x \in S : TRUE IN b + SumOf(S \ {b})
BitsOf(requested) == CHOOSE S \in SUBSET {1, 2, 4, 8, 16} : SumOf(S) = requested

\* C22: sync response. The response to a request (start, end, ascending) that succeeds
\* has one BlockData per block from start to end, in that order, and in each of them
\* the header is present iff bit 1 of RequestedData is set, the body iff bit 2, and the
\* receipt, message queue and justification iff bit 4, 8, 16 is set and the datum is
\* stored for the block.
C22_SyncResponse ==
    (scall.op = "CreateBlockResponse" /\ scall.err = "nil") =>
        /\ Len(bresp) = scall.end - scall.start + 1
        /\ \A i \in 1 .. Len(bresp) :
               LET n == scall.start + i - 1
                   bits == BitsOf(scall.requested)
               IN  /\ bresp[i].hash = n
                   /\ bresp[i].header = (IF 1 \in bits THEN n ELSE NoDatum)
                   /\ bresp[i].body = (IF 2 \in bits THEN n ELSE NoDatum)
                   /\ bresp[i].receipt =
                          (IF 4 \in bits /\ "receipt" \in bdStore[n] THEN n ELSE NoDatum)
                   /\ bresp[i].messageQueue =
                          (IF 8 \in bits /\ "messageQueue" \in bdStore[n] THEN n ELSE NoDatum)
                   /\ bresp[i].justification =
                          (IF 16 \in bits /\ "justification" \in bdStore[n] THEN n ELSE NoDatum)

\* C22 witness: a response of two blocks to a request for header and receipt, where the
\* first block has no receipt stored and the second has one and a message queue that
\* was not asked for.
C22_Witness ==
    /\ scall.op = "CreateBlockResponse"
    /\ scall.requested = 5
    /\ Len(bresp) = 2
    /\ bresp[1].header = scall.start /\ bresp[1].body = NoDatum /\ bresp[1].receipt = NoDatum
    /\ bresp[2].receipt = scall.end
    /\ "messageQueue" \in bdStore[scall.end] /\ bresp[2].messageQueue = NoDatum

\* C23: broadcast de-duplication. Two deliveries of one message to one peer that both
\* come from SendMessage calls made with the message cache are at least the cache's TTL
\* apart; a SendMessage call made without the cache delivers its message to every peer,
\* once.
C23_BroadcastDeduplication ==
    \A p \in Peers :
        /\ \A i, j \in 1 .. Len(netMessages[p]) :
               (/\ i < j
                /\ netMessages[p][i].msg = netMessages[p][j].msg
                /\ sendCalls[netMessages[p][i].call].cached
                /\ sendCalls[netMessages[p][j].call].cached) =>
                   netMessages[p][j].at - netMessages[p][i].at >= MsgCacheTTL
        /\ \A c \in 1 .. Len(sendCalls) :
               ~sendCalls[c].cached =>
                   Cardinality({i \in 1 .. Len(netMessages[p]) :
                                   /\ netMessages[p][i].call = c
                                   /\ netMessages[p][i].msg = sendCalls[c].msg}) = 1

\* C23 witness: a message was sent three times with the cache within its TTL, and a
\* peer has received it once.
C23_Witness ==
    /\ Len(sendCalls) = MaxSends
    /\ \A c \in 1 .. Len(sendCalls) : sendCalls[c].cached /\ sendCalls[c].msg = sendCalls[1].msg
    /\ sendCalls[MaxSends].at - sendCalls[1].at < MsgCacheTTL
    /\ sendCalls[MaxSends].at > sendCalls[1].at
    /\ \A p \in Peers : Len(netMessages[p]) = 1

\* C24: finalised-hash record round-trip. On a fresh block state GetFinalizedHash(0, 0)
\* is the genesis hash; a SetFinalizedHash(h, round, setID) that succeeds makes
\* GetFinalizedHash(round, setID) be h and leaves the records of the other
\* (round, setID) pairs.
C24_FinalizedHashRoundTrip ==
    /\ GetFinalizedHash(0, 0) = Genesis
    /\ [][\A h \in Hashes \cup {UnknownHash}, key \in FinKeys :
             (SetFinalizedHash(h, key) /\ err' = "nil") =>
                 /\ GetFinalizedHash(key[1], key[2])' = h
                 /\ \A k \in FinKeys \ {key} :
                        GetFinalizedHash(k[1], k[2])' = GetFinalizedHash(k[1], k[2])]_vars

\* C24 witness: the hash of no block was recorded for (1, 1), as in TestFinalizedHash,
\* and the record of (0, 0) is still the genesis hash.
C24_Witness ==
    /\ GetFinalizedHash(1, 1) = UnknownHash
    /\ GetFinalizedHash(0, 0) = Genesis
    /\ nextHash > 1

\* The calls of the command so far that have the name call.
CallsOf(call) == {i \in 1 .. Len(cmd.calls) : cmd.calls[i] = call}

\* C25: the root command never starts an uninitialised node. A node is created and
\* started only from an initialised base path; InitNode is called only when the base
\* path is not initialised, and before NewNode and Start; after an unknown positional
\* argument or a failed call (config creation, initialisation, keystore loading or
\* unlocking, and any other) nothing more is called and no node is started.
C25_NeverStartsUninitialised ==
    [][cmd'.name = "gossamer" =>
          /\ (dotNode'.created \/ dotNode'.started) => dotNode'.initialized
          /\ dotNode'.started => dotNode'.created
          /\ Len(cmd'.calls) > Len(cmd.calls) =>
                 /\ cmd.err = "nil"
                 /\ cmd'.calls[Len(cmd'.calls)] = "InitNode" => ~dotNode.initialized
                 /\ cmd'.calls[Len(cmd'.calls)] \in {"NewNode", "Start"} =>
                        dotNode.initialized
          /\ cmd'.err # "nil" => (cmd'.pc = "returned" /\ ~dotNode'.started)
          /\ (cmd.args > 0 /\ cmd'.pc # "start") =>
                 (cmd'.calls = <<>> /\ cmd'.err # "nil")]_vars

\* C25 witness: the command has initialised a base path that was not initialised and
\* then created and started the node.
C25_Witness ==
    /\ cmd.name = "gossamer"
    /\ CallsOf("InitNode") # {}
    /\ dotNode.initialized /\ dotNode.created /\ dotNode.started
    /\ cmd.pc = "returned" /\ cmd.err = "nil"

\* C26: import-state requires all three inputs. Unless --state and --header are not
\* empty and --first-slot is not zero, the command returns an error and ImportState is
\* not called; when ImportState is called, it is called with the values of the three
\* flags.
C26_ImportStateInputs ==
    cmd.name = "import-state" =>
        /\ (cmd.stateFP = "" \/ cmd.headerFP = "" \/ cmd.firstSlot = 0) =>
               /\ dotNode.imports = <<>>
               /\ cmd.pc # "start" => cmd.err # "nil"
        /\ \A i \in 1 .. Len(dotNode.imports) :
               /\ dotNode.imports[i].stateFP = cmd.stateFP
               /\ dotNode.imports[i].headerFP = cmd.headerFP
               /\ dotNode.imports[i].firstSlot = <<0, 0, 0, cmd.firstSlot>>

\* C27: a failed build loses no transaction. When buildBlock has returned an error,
\* every transaction it had included is in the pool again.
C27_FailedBuildLosesNoTransaction ==
    bpc = "failed" =>
        \A i \in 1 .. Len(included) :
            \E j \in 1 .. Len(txQueue) : txQueue[j] = included[i]

\* C28: registration releases its lock on every return path. Whenever no call is inside
\* a locked section, no lock of the imported or of the finalised channels is held, and
\* so a subscriber that is registered can unregister.
C28_RegistrationReleasesLock ==
    /\ importedLock = 0
    /\ finalisedLock = 0
    /\ \A ch \in ImpChans : reg[ch].pc = "registered" => ENABLED UnregisterImportedChannel(ch)
    /\ \A ch \in FinChans : reg[ch].pc = "registered" => ENABLED UnregisterFinalizedChannel(ch)

\* The channels of the kind of ch.
SameKind(ch) == IF ch \in ImpChans THEN ImpChans ELSE FinChans
\* The channel map of the kind of ch.
MapOf(ch) == IF ch \in ImpChans THEN imported ELSE finalised

\* C29: concurrent registrations do not collide. Channels whose registrations have
\* succeeded, and that have not been unregistered, have different ids, and each of
\* them is in the map under its id.
C29_RegistrationsDoNotCollide ==
    \A ch \in Chans :
        reg[ch].pc = "registered" =>
            /\ MapOf(ch)[reg[ch].id] = ch
            /\ \A o \in SameKind(ch) \ {ch} :
                   reg[o].pc = "registered" => reg[o].id # reg[ch].id

\* C30: unregister-then-close is safe. A notification enters a channel only while the
\* channel is registered: none is sent on a channel after its Unregister call returned.
C30_NoSendAfterUnregister ==
    [][\A ch \in Chans :
          Len(chanBuf'[ch]) > Len(chanBuf[ch]) => reg[ch].pc = "registered"]_vars

\* C31: PutIntoChild touches only its own child. After a PutIntoChild(A, k, v) that
\* succeeds, every other name B that had a child before the call still has one, with
\* the contents it had, also when the children of A and B had equal root hashes.
C31_PutIntoChildFrame ==
    [][\A name \in ChildNames, other \in ChildNames :
          (/\ other # name
           /\ cop'.op = "PutIntoChild"
           /\ cop'.err = "nil"
           /\ cop'.name = name
           /\ GetChild(other).err = "nil"
           /\ GetChild(other).child # 0) =>
              /\ GetChild(other)'.err = "nil"
              /\ GetChild(other)'.child # 0
              /\ \A k \in ChildKeys :
                     GetFromChild(other, k)' = GetFromChild(other, k)]_vars

\* C32: import notification delivery. Every block that is imported is notified to
\* every channel registered then, and a subscriber whose channel has free capacity
\* while the notification of a block is on its way eventually has that block in its
\* channel, to receive it from there.
C32_ImportDelivery ==
    /\ [][(nextHash' # nextHash) =>
             \A c \in ImpChans :
                 reg[c].pc = "registered" => [ch |-> c, msg |-> nextHash] \in sendq']_vars
    /\ \A c \in ImpChans, b \in 1 .. MaxBlocks :
           []((/\ [ch |-> c, msg |-> b] \in sendq
               /\ reg[c].pc = "registered"
               /\ Len(chanBuf[c]) < ChanCap) =>
                  <>(\E i \in 1 .. Len(chanBuf[c]) : chanBuf[c][i] = b))

\* C33: operations on a missing child fail cleanly. For a name without a child (never
\* put, or removed by DeleteChild) GetChild yields no trie and GetFromChild fails with
\* "child trie does not exist"; a PutIntoChild or ClearFromChild of that name fails with
\* the same error, without a crash, and changes neither the parent nor any child.
C33_MissingChild ==
    [][\A name \in ChildNames :
          childRoot[name] = NoRoot =>
              /\ GetChild(name) = [err |-> "child trie does not exist", child |-> 0]
              /\ \A k \in ChildKeys :
                     GetFromChild(name, k) = [err |-> "child trie does not exist", val |-> 0]
              /\ (cop'.op \in {"PutIntoChild", "ClearFromChild"} /\ cop'.name = name) =>
                     /\ cop'.err = "child trie does not exist"
                     /\ UNCHANGED <<trieData, childRoot, childTries, nextTrie>>]_vars

\* C33 witness: a PutIntoChild of a name without a child has failed while the other
\* name has a child that holds a value.
C33_Witness ==
    /\ cop.op = "PutIntoChild"
    /\ cop.err = "child trie does not exist"
    /\ childRoot[cop.name] = NoRoot
    /\ \E other \in ChildNames \ {cop.name}, k \in ChildKeys :
           GetFromChild(other, k) = [err |-> "nil", val |-> 1]

\* ------------------------------------------------------------ GRANDPA claims

\* The handler was called: the message is a consensus message whose data decode.
Decodes(msg) ==
    /\ msg.kind = "ConsensusMessage"
    /\ Len(msg.data) > 0
    /\ decodeMessage(msg).err = "nil"

\* C34: GRANDPA gossip propagation decision. handleNetworkMessage returns propagate =
\* true exactly for a consensus message with data that decode, that the handler handles
\* without error, and that is neither a neighbour message nor a catch-up response; it
\* returns no error for a nil message or empty data, and an error for a message of
\* another type, a decode failure or a handler failure.
C34_PropagationDecision ==
    hcall.err # "none" =>
        LET msg == hcall.msg IN
        /\ hcall.propagate <=>
               (/\ Decodes(msg)
                /\ hcall.handled.err = "nil"
                /\ msg.data[1] \notin {"neighbour", "catchUpResponse"})
        /\ (msg.kind = "nil" \/ (msg.kind = "ConsensusMessage" /\ msg.data = <<>>)) =>
               hcall.err = "nil"
        /\ (msg.kind \notin {"nil", "ConsensusMessage"}) => hcall.err = "ErrInvalidMessageType"
        /\ (msg.kind = "ConsensusMessage" /\ msg.data = <<"garbage">>) =>
               hcall.err = "decode error"
        /\ (Decodes(msg) /\ hcall.handled.err # "nil") => hcall.err = hcall.handled.err
        /\ (Decodes(msg) /\ hcall.handled.err = "nil") => hcall.err = "nil"

\* C34 witness: a vote was handled and is propagated.
C34_Witness ==
    /\ hcall.msg = [kind |-> "ConsensusMessage", data |-> <<"vote">>]
    /\ hcall.handled.err = "nil"
    /\ hcall.propagate
    /\ hcall.err = "nil"

\* C35: GRANDPA response sending. A handleNetworkMessage call sends a message exactly
\* when the handler was called and returned no error and a response, and then it sends
\* that response, once; in every other case it sends nothing.
C35_ResponseSending ==
    [][\A msg \in NotificationsMessages, handled \in HandlerResults :
          handleNetworkMessage(msg, handled) =>
              IF Decodes(msg) /\ handled.err = "nil" /\ handled.resp # NoMessage
              THEN gossip' = Append(gossip, handled.resp)
              ELSE gossip' = gossip]_vars

\* C35 witness: a catch-up request was handled and its response, and nothing else,
\* was sent.
C35_Witness ==
    /\ hcall.msg = [kind |-> "ConsensusMessage", data |-> <<"catchUpRequest">>]
    /\ hcall.err = "nil"
    /\ hcall.handled.resp.type = "catchUpResponse"
    /\ gossip = <<hcall.handled.resp>>

\* The block number a neighbour message carries, as a number of three digits.
NumberOf(m) == <<0, m.number[1], m.number[2]>>

\* C36: neighbour messages track the latest finalisation. Nothing is broadcast before
\* the first finalisation is received; every broadcast is one neighbour message, sent
\* on receiving a finalisation or on an elapsed interval, and it carries version 1 and
\* the round, the set id and the block number of the finalisation received last.
C36_NeighbourTracksFinalisation ==
    /\ [](lastInfo = NoInfo => gossip = <<>>)
    /\ [][gossip' # gossip =>
             /\ \E ok \in BOOLEAN : NeighbourFinalised(ok) \/ NeighbourInterval(ok)
             /\ Len(gossip') = Len(gossip) + 1
             /\ SubSeq(gossip', 1, Len(gossip)) = gossip
             /\ LET m == gossip'[Len(gossip')] IN
                    /\ m.type = "neighbour"
                    /\ m.version = 1
                    /\ m.round = lastInfo'.round
                    /\ m.setID = lastInfo'.setID
                    /\ NumberOf(m) = lastInfo'.number]_vars

\* C37: neighbour-message task shutdown. Once the context is cancelled or the
\* finalised-block channel is closed, sendNeighbourMessage eventually returns, and
\* once it has returned it broadcasts nothing any more.
C37_NeighbourShutdown ==
    /\ (ctxDone \/ finalisedCh.closed) ~> (npc = "returned")
    /\ [][npc = "returned" => (npc' = "returned" /\ gossip' = gossip)]_vars

\* C37 witness: the goroutine broadcast a neighbour message, the context was cancelled
\* while the channel stayed open, and the goroutine has returned.
C37_Witness ==
    /\ npc = "returned"
    /\ ctxDone
    /\ ~finalisedCh.closed
    /\ gossip # <<>>

\* The ids in use in a channel map.
InUse(map) == {i \in ChannelIds : map[i] # NoChan}

\* C38: subscriber limit. At most MaxChannels channels of a kind are registered; a
\* registration called when MaxChannels are registered fails and leaves the registered
\* channels as they are; one called when fewer are registered returns an id that was
\* not in use and registers the channel under it.
C38_SubscriberLimit ==
    /\ [](Cardinality(InUse(imported)) <= MaxChannels /\ Cardinality(InUse(finalised)) <= MaxChannels)
    /\ [][\A ch \in Chans :
             /\ (reg[ch].pc = "idle" /\ reg'[ch].pc # "idle") =>
                    IF Cardinality(InUse(MapOf(ch))) = MaxChannels
                    THEN reg'[ch].pc = "failed" /\ imported' = imported /\ finalised' = finalised
                    ELSE reg'[ch].pc = "picked"
             /\ (reg[ch].pc = "picked" /\ reg'[ch].pc = "registered") =>
                    /\ reg[ch].id \notin InUse(MapOf(ch))
                    /\ MapOf(ch)'[reg[ch].id] = ch
                    /\ InUse(MapOf(ch))' = InUse(MapOf(ch)) \cup {reg[ch].id}]_vars

\* ------------------------------------------------------ block body and seal

\* Where in popped the transaction at place j of a body (after n inherents) was popped.
PoppedAt(j, n) ==
    CHOOSE i \in 1 .. Len(popped) :
        /\ popped[i].outcome \in {"success", "dispatchError"}
        /\ Cardinality({k \in 1 .. i : popped[k].outcome \in {"success", "dispatchError"}}) = j - n

\* C40: body order of a built block. The body of a returned block is the inherents in
\* the order the runtime returned them, then the included transactions in the order
\* they were popped: no discarded transaction is in it, and no transaction twice.
C40_BodyOrder ==
    bpc = "returned" =>
        LET n == Len(inherentExts)
            kept == {i \in 1 .. Len(popped) : popped[i].outcome \in {"success", "dispatchError"}}
        IN  /\ Len(built) = n + Cardinality(kept)
            /\ \A j \in 1 .. n : built[j] = <<"inherent", inherentExts[j]>>
            /\ \A j \in (n + 1) .. Len(built) : built[j] = <<"tx", popped[PoppedAt(j, n)].tx.id>>
            /\ \A j, k \in (n + 1) .. Len(built) : j < k => PoppedAt(j, n) < PoppedAt(k, n)
            /\ \A j, k \in 1 .. Len(built) : j # k => built[j] # built[k]
            /\ \A i \in (1 .. Len(popped)) \ kept :
                   \A j \in 1 .. Len(built) : built[j] # <<"tx", popped[i].tx.id>>

\* C40 witness: a block was returned with two inherents, then a transaction popped
\* second, while the transaction popped first was discarded.
C40_Witness ==
    /\ bpc = "returned"
    /\ Len(inherentExts) = 2
    /\ Len(popped) = 2
    /\ popped[1].outcome = "invalid"
    /\ popped[2].outcome = "dispatchError"
    /\ built = <<<<"inherent", 1>>, <<"inherent", 2>>, <<"tx", popped[2].tx.id>>>>

\* The header of a returned block without its last digest item, the seal.
WithoutSeal(h) == [h EXCEPT !.digest = SubSeq(@, 1, Len(@) - 1)]

\* C39: the seal signs the header without the seal. The signature in the seal of a
\* returned block is made over the Blake2b hash of the encoding of the block's header
\* less the seal, which holds the pre-runtime digest and no seal; the header is
\* changed between signing and return by appending the seal only.
C39_SealSignsHeaderWithoutSeal ==
    /\ bpc = "returned" =>
           /\ sealData.signed = Blake2bHash(Encode(WithoutSeal(header)))
           /\ \E i \in 1 .. Len(header.digest) - 1 : header.digest[i] = PreRuntimeDigest
           /\ \A i \in 1 .. Len(header.digest) - 1 : header.digest[i] # SealDigest
    /\ bpc = "body" =>
           /\ sealData.signed = Blake2bHash(Encode(WithoutSeal(header)))
           /\ header.digest[Len(header.digest)] = SealDigest

\* C39 witness: a block was returned on a parent other than genesis, with a digest
\* item of the runtime in front of the pre-runtime digest, and its seal is signed.
C39_Witness ==
    /\ bpc = "returned"
    /\ parentHdr.hash # Genesis
    /\ header.digest = <<ConsensusDigest, PreRuntimeDigest, SealDigest>>
    /\ sealData # NoSeal

====
